---------------------------- MODULE Spec2Model ----------------------------
(***************************************************************************)
(* State-machine model of openai-image-gen-mcp:                            *)
(*   - the parameter validator   (src/src/utils/validation.js)             *)
(*   - the image retention sweep (src/src/utils/logger.js, image-cleanup)  *)
(*     and its scheduler                                                   *)
(*   - the two request handlers  (src/unnamed/part_004, src/src/mcp-server.js) *)
(*   - the image download        (src/src/openai-image-gen.js, saveImage)  *)
(*                                                                         *)
(* JavaScript values are modelled as tagged records.  Enumeration-like     *)
(* strings are TLA+ strings; the prompt is a string abstracted to its      *)
(* whitespace structure (leading blanks, core, trailing blanks); a string  *)
(* given for n is a sequence of characters so that parseInt is computed.   *)
(***************************************************************************)
EXTENDS Integers, Sequences, FiniteSets, TLC

VARIABLES
  params,      \* the argument of validateImageGenerationParams
  vpc,         \* "called" | "done" : position of the validator call
  outcome,     \* what the call did: returned a value or threw
  dir,         \* the image directory: entry -> file state
  dirState,    \* "ok" | "missing" | "unreadable"
  now,         \* Date.now(), in days
  sweep,       \* the cleanupOldImages / getImageStats call in progress
  prev,        \* the last dry run, while a following call is comparable
  hist,        \* the first validator call of a sequence of calls
  sched,       \* the scheduleCleanup handle and the cleanups it started
  request,     \* a generation request in one of the two transports
  download,    \* a saveImage call
  auth,        \* a request passing through authMiddleware
  server,      \* the configuration and what the HTTP server started with it
  stdio,       \* the line-delimited JSON-RPC server on stdin/stdout
  metrics      \* the MetricsStore

\* the middleware, the server startup, the stdio server, the metrics store
edgeVars      == <<auth, server, stdio, metrics>>
validatorVars == <<params, vpc, outcome, hist>>
sweeperVars   == <<dir, dirState, now, sweep, prev>>
\* what the steps of a directly called cleanup leave alone
outsideSweeper == <<validatorVars, sched, request, download, edgeVars>>
vars ==
  <<params, vpc, outcome, hist, dir, dirState, now, sweep, prev, sched,
    request, download, auth, server, stdio, metrics>>

---------------------------------------------------------------------------
(* JavaScript values of the enumeration-like fields                        *)

Undefined == [t |-> "undefined", s |-> "", n |-> 0]
Null      == [t |-> "null",      s |-> "", n |-> 0]
Str(x)    == [t |-> "string",    s |-> x,  n |-> 0]
Num(k)    == [t |-> "number",    s |-> "", n |-> k]
Bool(b)   == [t |-> "boolean",   s |-> "", n |-> IF b THEN 1 ELSE 0]

\* a conversion that reads the string "false" as false
Truthy_falseString(v) ==
  CASE v.t = "undefined" -> FALSE
    [] v.t = "null"      -> FALSE
    [] v.t = "string"    -> v.s \notin {"", "false"}
    [] v.t = "number"    -> v.n # 0
    [] v.t = "boolean"   -> v.n = 1

\* ToBoolean: undefined, null, "", 0 and false are falsy
Truthy(v) ==
  CASE v.t = "undefined" -> FALSE
    [] v.t = "null"      -> FALSE
    [] v.t = "string"    -> v.s # ""
    [] v.t = "number"    -> v.n # 0
    [] v.t = "boolean"   -> v.n = 1

\* Array.prototype.includes on an array of strings (SameValueZero)
Includes(enum, v) == v.t = "string" /\ v.s \in enum

---------------------------------------------------------------------------
(* VALIDATION_RULES                                                        *)

PromptMinLength == 1
PromptMaxLength == 4000
PromptRequired  == TRUE

ModelEnum    == {"dall-e-2", "dall-e-3"}
ModelDefault == "dall-e-3"

SizeEnum    == {"256x256", "512x512", "1024x1024", "1792x1024", "1024x1792"}
SizeDefault == "1024x1024"
SizeModelConstraints ==
  [m \in ModelEnum |->
     IF m = "dall-e-2" THEN {"256x256", "512x512", "1024x1024"}
                       ELSE {"1024x1024", "1792x1024", "1024x1792"}]

QualityEnum    == {"standard", "hd"}
QualityDefault == "standard"
QualityModelConstraints ==
  [m \in ModelEnum |->
     IF m = "dall-e-3" THEN {"standard", "hd"} ELSE {"standard"}]

StyleEnum    == {"vivid", "natural"}
StyleDefault == "vivid"
\* modelConstraints['dall-e-2'] is null: style is not supported
StyleSupported == [m \in ModelEnum |-> m = "dall-e-3"]
StyleModelConstraints ==
  [m \in ModelEnum |-> IF m = "dall-e-3" THEN {"vivid", "natural"} ELSE {}]

NMin     == 1
NMax     == 10
NDefault == 1
NModelConstraints ==
  [m \in ModelEnum |->
     IF m = "dall-e-2" THEN [min |-> 1, max |-> 10] ELSE [min |-> 1, max |-> 1]]

ResponseFormats == {"url", "b64_json"}

---------------------------------------------------------------------------
(* Results of the field validators: a value or a thrown ValidationError    *)

Ok(v)        == [ok |-> TRUE,  field |-> "",  v |-> v]
Fail(f, v0)  == [ok |-> FALSE, field |-> f,   v |-> v0]

(* Prompt strings: lead blanks, a core that starts and ends with a         *)
(* non-blank character (body = its length), trail blanks.  A string of     *)
(* blanks only has body = 0 and all its blanks in lead.                    *)
PStr(l, b, r) == [t |-> "string", lead |-> l, body |-> b, trail |-> r]
PUndefined    == [t |-> "undefined", lead |-> 0, body |-> 0, trail |-> 0]
PNull         == [t |-> "null",      lead |-> 0, body |-> 0, trail |-> 0]
PNumber       == [t |-> "number",    lead |-> 0, body |-> 0, trail |-> 0]

Length(p) == p.lead + p.body + p.trail
\* String.prototype.trim
Trim(p) == PStr(0, p.body, 0)

validatePrompt(prompt) ==
  IF PromptRequired /\ (prompt.t = "undefined" \/ prompt.t = "null"
                        \/ (prompt.t = "string" /\ Length(prompt) = 0))
    THEN Fail("prompt", PUndefined)
  ELSE IF prompt.t # "string" THEN Fail("prompt", PUndefined)
  ELSE IF Length(prompt) < PromptMinLength THEN Fail("prompt", PUndefined)
  ELSE IF Length(prompt) > PromptMaxLength THEN Fail("prompt", PUndefined)
  ELSE IF Length(Trim(prompt)) = 0 THEN Fail("prompt", PUndefined)
  ELSE Ok(Trim(prompt))

validateModel(model) ==
  IF ~Truthy(model) THEN Ok(ModelDefault)
  ELSE IF ~Includes(ModelEnum, model) THEN Fail("model", "")
  ELSE Ok(model.s)

validateSize(size, model) ==
  IF ~Truthy(size) THEN Ok(SizeDefault)
  ELSE IF ~Includes(SizeEnum, size) THEN Fail("size", "")
  ELSE IF model \in DOMAIN SizeModelConstraints
          /\ size.s \notin SizeModelConstraints[model] THEN Fail("size", "")
  ELSE Ok(size.s)

\* a validateQuality that forgets the model-specific constraint
validateQuality_anyModel(quality, model) ==
  IF ~Truthy(quality) THEN Ok(QualityDefault)
  ELSE IF ~Includes(QualityEnum, quality) THEN Fail("quality", "")
  ELSE Ok(quality.s)

validateQuality(quality, model) ==
  IF ~Truthy(quality) THEN Ok(QualityDefault)
  ELSE IF ~Includes(QualityEnum, quality) THEN Fail("quality", "")
  ELSE IF model \in DOMAIN QualityModelConstraints
          /\ quality.s \notin QualityModelConstraints[model]
    THEN Fail("quality", "")
  ELSE Ok(quality.s)

\* a validateStyle that checks the style whatever the model
validateStyle_anyModel(style, model) ==
  IF ~Truthy(style) THEN
    (IF model \in DOMAIN StyleSupported /\ ~StyleSupported[model]
       THEN Ok("null") ELSE Ok(StyleDefault))
  ELSE IF ~Includes(StyleEnum, style) THEN Fail("style", "")
  ELSE IF model \in DOMAIN StyleSupported /\ ~StyleSupported[model] THEN Ok("null")
  ELSE Ok(style.s)

\* the returned null (style unsupported) is the value "null"
validateStyle(style, model) ==
  IF model \in DOMAIN StyleSupported /\ ~StyleSupported[model] THEN Ok("null")
  ELSE IF ~Truthy(style) THEN Ok(StyleDefault)
  ELSE IF ~Includes(StyleEnum, style) THEN Fail("style", "")
  ELSE IF model \in DOMAIN StyleModelConstraints
          /\ style.s \notin StyleModelConstraints[model] THEN Fail("style", "")
  ELSE Ok(style.s)

---------------------------------------------------------------------------
(* The n field: numbers and strings of characters                          *)

\* a JavaScript number: the integer k, or k + 1/2 when frac, or NaN
JsNum(k)  == [t |-> "number", cs |-> <<>>, k |-> k, frac |-> FALSE, nan |-> FALSE]
JsHalf(k) == [t |-> "number", cs |-> <<>>, k |-> k, frac |-> TRUE,  nan |-> FALSE]
JsNaN     == [t |-> "number", cs |-> <<>>, k |-> 0, frac |-> FALSE, nan |-> TRUE]
NStr(cs)  == [t |-> "string", cs |-> cs,   k |-> 0, frac |-> FALSE, nan |-> FALSE]
NUndefined == [t |-> "undefined", cs |-> <<>>, k |-> 0, frac |-> FALSE, nan |-> FALSE]
NNull      == [t |-> "null",      cs |-> <<>>, k |-> 0, frac |-> FALSE, nan |-> FALSE]
NTrue      == [t |-> "boolean",   cs |-> <<>>, k |-> 1, frac |-> FALSE, nan |-> FALSE]

Digits == {"0", "1", "2", "3", "4", "5", "6", "7", "8", "9"}
DigitVal(c) ==
  CASE c = "0" -> 0 [] c = "1" -> 1 [] c = "2" -> 2 [] c = "3" -> 3
    [] c = "4" -> 4 [] c = "5" -> 5 [] c = "6" -> 6 [] c = "7" -> 7
    [] c = "8" -> 8 [] c = "9" -> 9

RECURSIVE SkipBlanks(_)
SkipBlanks(cs) ==
  IF cs # <<>> /\ Head(cs) = " " THEN SkipBlanks(Tail(cs)) ELSE cs

\* the longest prefix of decimal digits, as <<value, number of digits>>
RECURSIVE DigitRun(_, _, _)
DigitRun(cs, acc, cnt) ==
  IF cs # <<>> /\ Head(cs) \in Digits
    THEN DigitRun(Tail(cs), 10 * acc + DigitVal(Head(cs)), cnt + 1)
    ELSE <<acc, cnt>>

\* parseInt(string, 10): leading blanks, optional sign, digits up to the
\* first character that is not a digit; NaN when there is no digit
parseInt(cs) ==
  LET s1   == SkipBlanks(cs)
      neg  == s1 # <<>> /\ Head(s1) = "-"
      sgn  == s1 # <<>> /\ Head(s1) \in {"-", "+"}
      s2   == IF sgn THEN Tail(s1) ELSE s1
      run  == DigitRun(s2, 0, 0)
  IN  IF run[2] = 0 THEN JsNaN
      ELSE JsNum(IF neg THEN 0 - run[1] ELSE run[1])

\* global isNaN (ToNumber first: true -> 1) and Number.isInteger
IsNaN(v)     == v.t = "number" /\ v.nan
IsInteger(v) == v.t = "number" /\ ~v.nan /\ ~v.frac

validateN(n, model) ==
  IF n.t = "undefined" \/ n.t = "null" THEN Ok(JsNum(NDefault))
  ELSE
    LET numN == IF n.t = "string" THEN parseInt(n.cs) ELSE n
        constraints == IF model \in DOMAIN NModelConstraints
                         THEN NModelConstraints[model]
                         ELSE [min |-> NMin, max |-> NMax]
    IN  IF IsNaN(numN) \/ ~IsInteger(numN) THEN Fail("n", JsNaN)
        ELSE IF numN.k < constraints.min \/ numN.k > constraints.max
          THEN Fail("n", JsNaN)
        ELSE Ok(numN)

---------------------------------------------------------------------------
(* validateImageGenerationParams                                           *)

\* the request is an object with the eight fields (kind "object"), or
\* undefined, null or a primitive, none of which has any of the fields
NoObj(k) ==
  [kind |-> k, prompt |-> PUndefined, model |-> Undefined, size |-> Undefined,
   quality |-> Undefined, style |-> Undefined, n |-> NUndefined,
   save |-> Undefined, response_format |-> Undefined]

\* a validated parameter object; "absent" marks a property that is not set
NoValue ==
  [prompt |-> PUndefined, model |-> "absent", size |-> "absent",
   quality |-> "absent", n |-> JsNaN, style |-> "absent", save |-> "absent",
   response_format |-> "absent"]

Returned(v)  == [status |-> "returned", error |-> "none", field |-> "", value |-> v]
Threw(e, f)  == [status |-> "threw",    error |-> e,      field |-> f,  value |-> NoValue]
NotCalled    == [status |-> "none",     error |-> "none", field |-> "", value |-> NoValue]

\* a validator that checks style before n
validateImageGenerationParams_styleFirst(p) ==
  IF p.kind \in {"undefined", "null"} THEN Threw("TypeError", "")
  ELSE
    LET prompt  == validatePrompt(p.prompt)
        model   == validateModel(p.model)
        size    == validateSize(p.size, model.v)
        quality == validateQuality(p.quality, model.v)
        n       == validateN(p.n, model.v)
        style   == validateStyle(p.style, model.v)
        rfOk    == p.response_format.t = "undefined"
                   \/ Includes(ResponseFormats, p.response_format)
    IN  IF ~prompt.ok       THEN Threw("ValidationError", prompt.field)
        ELSE IF ~model.ok   THEN Threw("ValidationError", model.field)
        ELSE IF ~size.ok    THEN Threw("ValidationError", size.field)
        ELSE IF ~quality.ok THEN Threw("ValidationError", quality.field)
        ELSE IF ~style.ok   THEN Threw("ValidationError", style.field)
        ELSE IF ~n.ok       THEN Threw("ValidationError", n.field)
        ELSE IF ~rfOk       THEN Threw("ValidationError", "response_format")
        ELSE Returned(
          [prompt  |-> prompt.v,
           model   |-> model.v,
           size    |-> size.v,
           quality |-> quality.v,
           n       |-> n.v,
           style   |-> IF style.v # "null" THEN style.v ELSE "absent",
           save    |-> IF p.save.t = "undefined" THEN "absent"
                       ELSE IF Truthy(p.save) THEN "true" ELSE "false",
           response_format |->
                       IF p.response_format.t = "undefined" THEN "absent"
                       ELSE p.response_format.s])

\* lines 272-314.  Reading a property of undefined or null throws a
\* TypeError; otherwise the first field validator that throws decides.
validateImageGenerationParams(p) ==
  IF p.kind \in {"undefined", "null"} THEN Threw("TypeError", "")
  ELSE
    LET prompt  == validatePrompt(p.prompt)
        model   == validateModel(p.model)
        size    == validateSize(p.size, model.v)
        quality == validateQuality(p.quality, model.v)
        n       == validateN(p.n, model.v)
        style   == validateStyle(p.style, model.v)
        rfOk    == p.response_format.t = "undefined"
                   \/ Includes(ResponseFormats, p.response_format)
    IN  IF ~prompt.ok       THEN Threw("ValidationError", prompt.field)
        ELSE IF ~model.ok   THEN Threw("ValidationError", model.field)
        ELSE IF ~size.ok    THEN Threw("ValidationError", size.field)
        ELSE IF ~quality.ok THEN Threw("ValidationError", quality.field)
        ELSE IF ~n.ok       THEN Threw("ValidationError", n.field)
        ELSE IF ~style.ok   THEN Threw("ValidationError", style.field)
        ELSE IF ~rfOk       THEN Threw("ValidationError", "response_format")
        ELSE Returned(
          [prompt  |-> prompt.v,
           model   |-> model.v,
           size    |-> size.v,
           quality |-> quality.v,
           n       |-> n.v,
           style   |-> IF style.v # "null" THEN style.v ELSE "absent",
           save    |-> IF p.save.t = "undefined" THEN "absent"
                       ELSE IF Truthy(p.save) THEN "true" ELSE "false",
           response_format |->
                       IF p.response_format.t = "undefined" THEN "absent"
                       ELSE p.response_format.s])

---------------------------------------------------------------------------
(* The validator as a state machine                                        *)

\* The first call of a sequence of calls: its argument, what it did, and
\* whether a call with another argument has been made since.
NoHist ==
  [valid |-> FALSE, params |-> NoObj("undefined"), outcome |-> NotCalled,
   others |-> FALSE]

Recorded(h, p, o) ==
  IF ~h.valid THEN [valid |-> TRUE, params |-> p, outcome |-> o, others |-> FALSE]
  ELSE IF p # h.params THEN [h EXCEPT !.others = TRUE]
  ELSE h

PromptInputs ==
  {PUndefined, PNull, PNumber, PStr(0, 0, 0), PStr(3, 0, 0), PStr(0, 1, 0),
   PStr(2, 11, 2), PStr(0, PromptMaxLength, 0), PStr(1, PromptMaxLength, 0),
   PStr(0, PromptMaxLength - 1, 1), PStr(0, PromptMaxLength + 1, 0)}
PromptBasic == {PStr(0, 1, 0), PStr(0, 0, 0)}

ModelInputs ==
  {Undefined, Str(""), Str("dall-e-2"), Str("dall-e-3"), Str("gpt-image-1"), Num(3)}
ModelBasic == {Undefined, Str("dall-e-2"), Str("dall-e-3")}

SizeInputs ==
  {Undefined, Str(""), Str("256x256"), Str("1024x1024"), Str("1792x1024"),
   Str("2048x2048"), Num(512)}
SizeBasic == {Undefined, Str("1792x1024")}

QualityInputs == {Undefined, Str("standard"), Str("hd"), Str("ultra")}
QualityBasic  == {Undefined, Str("hd")}

StyleInputs == {Undefined, Str(""), Str("vivid"), Str("natural"), Str("anime")}
StyleBasic  == {Undefined, Str("anime")}

NInputs ==
  {NUndefined, NNull, NTrue, JsNaN, JsHalf(1),
   JsNum(0), JsNum(1), JsNum(2), JsNum(10), JsNum(11),
   NStr(<<>>), NStr(<<"2">>), NStr(<<"1", "0">>), NStr(<<"1", ".", "5">>),
   NStr(<<"2", "a", "b", "c">>), NStr(<<"a", "b", "c">>), NStr(<<" ", "1">>),
   NStr(<<"-", "1">>)}
NBasic == {NUndefined, JsNum(2)}

SaveInputs ==
  {Undefined, Null, Bool(TRUE), Bool(FALSE), Str("false"), Str(""), Num(0), Num(1)}
SaveBasic  == {Undefined}

FormatInputs == {Undefined, Null, Str("url"), Str("b64_json"), Str("png")}
FormatBasic  == {Undefined, Str("png")}

\* requests that vary the prompt, save and response_format in full
RequestsA ==
  [kind : {"object"}, prompt : PromptInputs, model : ModelBasic,
   size : SizeBasic, quality : QualityBasic, style : StyleBasic, n : NBasic,
   save : SaveInputs, response_format : FormatInputs]
\* requests that vary the model and the model-dependent fields in full
RequestsB ==
  [kind : {"object"}, prompt : PromptBasic, model : ModelInputs,
   size : SizeInputs, quality : QualityInputs, style : StyleInputs,
   n : NInputs, save : SaveBasic, response_format : FormatBasic]
\* a tools/call without arguments, a null, a primitive
RequestsC == {NoObj("undefined"), NoObj("null"), NoObj("primitive")}

Requests == RequestsA \cup RequestsB \cup RequestsC

\* the requests of a sequence of calls
SeqRequests ==
  [kind : {"object"}, prompt : {PStr(0, 1, 0), PStr(2, 11, 2)},
   model : {Undefined, Str("dall-e-2")}, size : {Undefined},
   quality : {Undefined, Str("hd")}, style : {Undefined, Str("anime")},
   n : {NUndefined, JsNum(2), NStr(<<"2">>)}, save : {Undefined, Str("false")},
   response_format : {Undefined}]
  \cup RequestsC

---------------------------------------------------------------------------
(* The image directory                                                     *)

NumImages == 3     \* image entries in the directory, at most
MaxFaults == 1     \* entries whose stat or unlink fails, at most
Now0      == 10    \* the clock at the start, in days
MaxTicks  == 2     \* days the clock may advance

\* Entries are numbered in the order readdir lists them; entry 0 is not an
\* image, entries 1..NumImages carry the recognised extensions in turn.
Entries == 0 .. NumImages
Exts    == <<"png", "JPG", "webp", "gif", "jpeg">>
ExtOf(e) == IF e = 0 THEN "txt" ELSE Exts[((e - 1) % Len(Exts)) + 1]

ToLower(x) == IF x = "JPG" THEN "jpg" ELSE x
\* /\.(png|jpg|jpeg|gif|webp)$/i.test(file)
IsImageName(e) == ToLower(ExtOf(e)) \in {"png", "jpg", "jpeg", "gif", "webp"}

FileSize(e) == 2 ^ e
MTimes == {3, 4, 9}

Absent == [present |-> FALSE, mtime |-> 0, readable |-> TRUE, deletable |-> TRUE]
File(m, r, d) == [present |-> TRUE, mtime |-> m, readable |-> r, deletable |-> d]
FileStates ==
  {Absent} \cup {File(m, r, d) : m \in MTimes, r \in BOOLEAN, d \in BOOLEAN}
Faulty(f) == f.present /\ (~f.readable \/ ~f.deletable)

Directories ==
  {d \in [Entries -> FileStates] :
     /\ d[0] = File(3, TRUE, TRUE)
     /\ Cardinality({e \in Entries : Faulty(d[e])}) <= MaxFaults
     /\ \A e \in Entries : d[e].present => (d[e].readable \/ d[e].deletable)}

---------------------------------------------------------------------------
(* cleanupOldImages                                                        *)

DEFAULT_RETENTION_MS == 7      \* 7 * 24 * 60 * 60 * 1000 ms = 7 days

RetentionInputs == {Undefined, Num(0), Num(2)}
MaxFilesInputs  == {Undefined, Num(0), Num(1), Num(2)}
DryRunInputs    == {Undefined, Bool(TRUE)}
Options ==
  [retentionMs : RetentionInputs, maxFiles : MaxFilesInputs, dryRun : DryRunInputs]
NoOptions == [retentionMs |-> Undefined, maxFiles |-> Undefined, dryRun |-> Undefined]

\* the results object; the early return has no deletedFiles property
Results(sc) ==
  [success |-> TRUE, filesScanned |-> sc, filesDeleted |-> 0, spaceFreed |-> 0,
   errors |-> <<>>, deletedFiles |-> <<>>]

\* the statistics object of getImageStats; NoFile is the null of
\* oldestFile and newestFile
NoFile == 0 - 1
NoStats ==
  [count |-> 0, totalSize |-> 0, totalAge |-> 0, oldestFile |-> NoFile,
   newestFile |-> NoFile]

\* One call of cleanupOldImages (op "cleanup"), getImageStats (op "stats")
\* or getImageFiles (op "scan"): its position, its locals, and what it has
\* logged (warned) and asked of the file system (unlinks).
Idle ==
  [pc |-> "idle", opts |-> NoOptions, retentionMs |-> 0, maxFiles |-> Null,
   dryRun |-> FALSE, files |-> <<>>, i |-> 1, imageFiles |-> <<>>,
   filesToDelete |-> <<>>, j |-> 1, results |-> Results(0),
   dir0 |-> [e \in Entries |-> Absent], now0 |-> 0, unlinks |-> <<>>,
   op |-> "cleanup", warned |-> <<>>, stats |-> NoStats]

\* History of the last completed dry run.  It is kept only while a call that
\* follows can be compared with it: the directory and the clock are as they
\* were when the dry run started, and the policy is the same.
NoPrev ==
  [valid |-> FALSE, retentionMs |-> Undefined, maxFiles |-> Undefined,
   now0 |-> 0, filesScanned |-> 0, filesDeleted |-> 0, spaceFreed |-> 0]

\* imageFiles.sort((a, b) => a.modified - b.modified), a stable sort
RECURSIVE Insert(_, _)
Insert(sorted, f) ==
  IF sorted = <<>> THEN <<f>>
  ELSE IF sorted[Len(sorted)].modified <= f.modified THEN Append(sorted, f)
  ELSE Append(Insert(SubSeq(sorted, 1, Len(sorted) - 1), f), sorted[Len(sorted)])

RECURSIVE SortByModified(_)
SortByModified(fs) ==
  IF fs = <<>> THEN <<>>
  ELSE Insert(SortByModified(SubSeq(fs, 1, Len(fs) - 1)), fs[Len(fs)])

InSeq(fs, f) == \E k \in 1 .. Len(fs) : fs[k] = f
Min(a, b) == IF a < b THEN a ELSE b

\* an age rule that also takes the files exactly as old as the retention
AgeSelected_inclusive(imageFiles, retentionMs) ==
  LET old(f) == f.age >= retentionMs IN SelectSeq(imageFiles, old)

\* lines 254-259: files older than the retention period
AgeSelected(imageFiles, retentionMs) ==
  LET old(f) == f.age > retentionMs IN SelectSeq(imageFiles, old)

\* the deletion set: lines 251-272
FilesToDelete(imageFiles, retentionMs, maxFiles) ==
  LET byAge == AgeSelected(imageFiles, retentionMs)
  IN  IF maxFiles.t # "null" /\ Len(imageFiles) > maxFiles.n
        THEN LET excessCount == Len(imageFiles) - maxFiles.n
                 notMarked(f) == ~InSeq(byAge, f)
                 filesNotMarkedForDeletion == SelectSeq(imageFiles, notMarked)
                 cnt == Min(excessCount, Len(filesNotMarkedForDeletion))
             IN  byAge \o SubSeq(filesNotMarkedForDeletion, 1, cnt)
        ELSE byAge

RECURSIVE SumSizes(_)
SumSizes(fs) == IF fs = <<>> THEN 0 ELSE Head(fs).size + SumSizes(Tail(fs))

Names(fs) == [k \in 1 .. Len(fs) |-> fs[k].name]

\* lines 302-309: the success flag and the return
Finish(sw) ==
  [sw EXCEPT !.pc = "done",
             !.results.success = (sw.results.errors = <<>>)]

\* a dry run that counts nothing
AfterScan_dryCountsNothing(sw) ==
  LET sorted == SortByModified(sw.imageFiles)
      del    == FilesToDelete(sorted, sw.retentionMs, sw.maxFiles)
      s1     == [sw EXCEPT !.imageFiles = sorted, !.filesToDelete = del,
                           !.j = 1, !.results = Results(Len(sorted))]
  IN  IF del = <<>> THEN Finish(s1)
      ELSE IF sw.dryRun THEN Finish([s1 EXCEPT !.j = Len(del) + 1])
      ELSE [s1 EXCEPT !.pc = "unlink"]

\* lines 237-300 up to the first await of unlink: sort, select, and the
\* whole deletion loop when it awaits nothing (dry run or nothing to delete)
AfterScan(sw) ==
  LET sorted == SortByModified(sw.imageFiles)
      del    == FilesToDelete(sorted, sw.retentionMs, sw.maxFiles)
      s1     == [sw EXCEPT !.imageFiles = sorted, !.filesToDelete = del,
                           !.j = 1, !.results = Results(Len(sorted))]
  IN  IF del = <<>> THEN Finish(s1)
      ELSE IF sw.dryRun
        THEN Finish([s1 EXCEPT !.j = Len(del) + 1,
                               !.results.filesDeleted = Len(del),
                               !.results.spaceFreed = SumSizes(del),
                               !.results.deletedFiles = Names(del)])
      ELSE [s1 EXCEPT !.pc = "unlink"]

RECURSIVE SumAges(_)
SumAges(fs) == IF fs = <<>> THEN 0 ELSE Head(fs).age + SumAges(Tail(fs))

\* lines 321-363: the statistics of the scanned files
getImageStats(sw) ==
  LET fs     == sw.imageFiles
      sorted == SortByModified(fs)
  IN  IF Len(fs) = 0 THEN [sw EXCEPT !.pc = "done", !.stats = NoStats]
      ELSE [sw EXCEPT
              !.pc = "done",
              !.imageFiles = sorted,
              !.stats = [count |-> Len(fs), totalSize |-> SumSizes(fs),
                         totalAge |-> SumAges(fs),
                         oldestFile |-> sorted[1].name,
                         newestFile |-> sorted[Len(sorted)].name]]

\* the caller of getImageFiles goes on with the returned list
ScanReturned(sw) ==
  CASE sw.op = "cleanup" -> AfterScan(sw)
    [] sw.op = "stats"   -> getImageStats(sw)
    [] sw.op = "scan"    -> [sw EXCEPT !.pc = "done"]

\* the index of the next image entry of the listing at or after i, or 0
NextImage(files, i) ==
  LET later == {k \in i .. Len(files) : IsImageName(files[k])}
  IN  IF later = {} THEN 0 ELSE CHOOSE k \in later : \A l \in later : k <= l

\* getImageFiles after readdir, or after a stat: on to the next image or out
Advance(sw, i) ==
  LET k == NextImage(sw.files, i)
  IN  IF k = 0 THEN ScanReturned(sw) ELSE [sw EXCEPT !.pc = "stat", !.i = k]

\* fsPromises.readdir: the entries present, in listing order
RECURSIVE Listing(_, _)
Listing(d, e) ==
  IF e > NumImages THEN <<>>
  ELSE (IF d[e].present THEN <<e>> ELSE <<>>) \o Listing(d, e + 1)

\* lines 210-219: a call of cleanupOldImages up to its first await
Started(o) ==
  [Idle EXCEPT
     !.pc = "access",
     !.opts = o,
     !.retentionMs = IF Truthy(o.retentionMs) THEN o.retentionMs.n
                     ELSE DEFAULT_RETENTION_MS,
     !.dryRun = IF Truthy(o.dryRun) THEN TRUE ELSE FALSE,
     !.maxFiles = IF Truthy(o.maxFiles) THEN o.maxFiles ELSE Null,
     !.dir0 = dir, !.now0 = now]

\* lines 222-234: the continuation after await fsPromises.access
AccessStep(sw) ==
  IF dirState = "missing"
    THEN [sw EXCEPT !.pc = "done", !.results = Results(0)]
    ELSE [sw EXCEPT !.pc = "readdir"]

\* a readdir whose failure is swallowed: the scan returns no files
ReaddirStep_swallowError(sw) ==
  IF dirState # "ok"
    THEN ScanReturned(sw)
    ELSE Advance([sw EXCEPT !.files = Listing(dir, 0)], 1)

\* lines 169-198: the continuation after await fsPromises.readdir; a
\* failure is logged and rethrown, and the callers rethrow it
ReaddirStep(sw) ==
  IF dirState # "ok"
    THEN [sw EXCEPT !.pc = "threw"]
    ELSE Advance([sw EXCEPT !.files = Listing(dir, 0)], 1)

\* lines 177-190: the continuation after await fsPromises.stat of one image
\* entry; a failure is logged as a warning and the entry is skipped
StatStep(sw) ==
  LET e   == sw.files[sw.i]
      rec == [name |-> e, size |-> FileSize(e), modified |-> dir[e].mtime,
              age |-> now - dir[e].mtime]
      s1  == IF dir[e].present /\ dir[e].readable
               THEN [sw EXCEPT !.imageFiles = Append(@, rec)]
               ELSE [sw EXCEPT !.warned = Append(@, e)]
  IN  Advance(s1, sw.i + 1)

\* fsPromises.unlink of the next file of the deletion set succeeds
UnlinkOk(sw) ==
  LET f == sw.filesToDelete[sw.j]
  IN  dir[f.name].present /\ dir[f.name].deletable

\* a deletion loop that takes "file already gone" for a successful delete
UnlinkStep_ignoreMissing(sw) ==
  LET f  == sw.filesToDelete[sw.j]
      s1 == IF UnlinkOk(sw) \/ ~dir[f.name].present
              THEN [sw EXCEPT
                      !.results.filesDeleted = @ + 1,
                      !.results.spaceFreed = @ + f.size,
                      !.results.deletedFiles = Append(@, f.name)]
              ELSE [sw EXCEPT !.results.errors = Append(@, f.name)]
      s2 == [s1 EXCEPT !.j = @ + 1, !.unlinks = Append(@, f.name)]
  IN  IF s2.j > Len(s2.filesToDelete) THEN Finish(s2) ELSE s2

\* lines 277-300: the continuation after await fsPromises.unlink
UnlinkStep(sw) ==
  LET f  == sw.filesToDelete[sw.j]
      s1 == IF UnlinkOk(sw)
              THEN [sw EXCEPT
                      !.results.filesDeleted = @ + 1,
                      !.results.spaceFreed = @ + f.size,
                      !.results.deletedFiles = Append(@, f.name)]
              ELSE [sw EXCEPT !.results.errors = Append(@, f.name)]
      s2 == [s1 EXCEPT !.j = @ + 1, !.unlinks = Append(@, f.name)]
  IN  IF s2.j > Len(s2.filesToDelete) THEN Finish(s2) ELSE s2

\* the directory after that unlink
UnlinkDir(sw) ==
  IF UnlinkOk(sw)
    THEN [dir EXCEPT ![sw.filesToDelete[sw.j].name] = Absent]
    ELSE dir

CleanupStart(o) ==
  /\ sweep.pc = "idle"
  /\ sweep' = Started(o)
  /\ prev' = IF /\ prev.valid
                 /\ prev.retentionMs = o.retentionMs
                 /\ prev.maxFiles = o.maxFiles
                 /\ prev.now0 = now
                THEN prev ELSE NoPrev
  /\ UNCHANGED <<dir, dirState, now, outsideSweeper>>

\* getImageStats(directory) is called: it starts with the scan
StatsStart ==
  /\ sweep.pc = "idle"
  /\ sweep' = [Idle EXCEPT !.pc = "readdir", !.op = "stats",
                           !.dir0 = dir, !.now0 = now]
  /\ prev' = NoPrev
  /\ UNCHANGED <<dir, dirState, now, outsideSweeper>>

\* getImageFiles(directory) is called directly
ScanStart ==
  /\ sweep.pc = "idle"
  /\ sweep' = [Idle EXCEPT !.pc = "readdir", !.op = "scan",
                           !.dir0 = dir, !.now0 = now]
  /\ prev' = NoPrev
  /\ UNCHANGED <<dir, dirState, now, outsideSweeper>>

\* an access step without the early return for a missing directory
Access_noEarlyReturn ==
  /\ sweep.pc = "access"
  /\ sweep' = [sweep EXCEPT !.pc = "readdir"]
  /\ UNCHANGED <<dir, dirState, now, prev, outsideSweeper>>

\* lines 222-234: await fsPromises.access(directory)
Access ==
  /\ sweep.pc = "access"
  /\ sweep' = AccessStep(sweep)
  /\ UNCHANGED <<dir, dirState, now, prev, outsideSweeper>>

\* line 171: await fsPromises.readdir(directory); a failure is rethrown
Readdir ==
  /\ sweep.pc = "readdir"
  /\ sweep' = ReaddirStep(sweep)
  /\ UNCHANGED <<dir, dirState, now, prev, outsideSweeper>>

\* lines 177-190: await fsPromises.stat(filePath) of one image entry
Stat ==
  /\ sweep.pc = "stat"
  /\ sweep' = StatStep(sweep)
  /\ UNCHANGED <<dir, dirState, now, prev, outsideSweeper>>

\* a deletion loop that stops at the first failed unlink
Unlink_abortOnError ==
  /\ sweep.pc = "unlink"
  /\ LET f  == sweep.filesToDelete[sweep.j]
         ok == dir[f.name].present /\ dir[f.name].deletable
         s1 == IF ok
                 THEN [sweep EXCEPT
                         !.results.filesDeleted = @ + 1,
                         !.results.spaceFreed = @ + f.size,
                         !.results.deletedFiles = Append(@, f.name)]
                 ELSE [sweep EXCEPT !.results.errors = Append(@, f.name)]
         s2 == [s1 EXCEPT !.j = @ + 1, !.unlinks = Append(@, f.name)]
     IN  /\ dir' = IF ok THEN [dir EXCEPT ![f.name] = Absent] ELSE dir
         /\ sweep' = IF ~ok \/ s2.j > Len(s2.filesToDelete) THEN Finish(s2) ELSE s2
  /\ UNCHANGED <<dirState, now, prev, outsideSweeper>>

\* lines 277-300: one iteration of the deletion loop that awaits unlink
Unlink ==
  /\ sweep.pc = "unlink"
  /\ dir' = UnlinkDir(sweep)
  /\ sweep' = UnlinkStep(sweep)
  /\ UNCHANGED <<dirState, now, prev, outsideSweeper>>

\* the caller receives the result or the error
Return ==
  /\ sweep.pc \in {"done", "threw"}
  /\ prev' = IF sweep.pc = "done" /\ sweep.dryRun /\ now = sweep.now0
                THEN [valid |-> TRUE,
                      retentionMs |-> sweep.opts.retentionMs,
                      maxFiles |-> sweep.opts.maxFiles,
                      now0 |-> sweep.now0,
                      filesScanned |-> sweep.results.filesScanned,
                      filesDeleted |-> sweep.results.filesDeleted,
                      spaceFreed |-> sweep.results.spaceFreed]
                ELSE NoPrev
  /\ sweep' = Idle
  /\ UNCHANGED <<dir, dirState, now, outsideSweeper>>

\* time passes
Tick ==
  /\ now < Now0 + MaxTicks
  /\ now' = now + 1
  /\ prev' = NoPrev
  /\ UNCHANGED <<dir, dirState, sweep, outsideSweeper>>

---------------------------------------------------------------------------
(* scheduleCleanup                                                         *)

MaxRuns == 2       \* cleanups one handle may start: the initial one and ticks

Runs == 1 .. MaxRuns

\* the policy the server passes to scheduleCleanup
ScheduleOptions ==
  [retentionMs : {Num(2)}, maxFiles : {Undefined, Num(1)}, dryRun : {Undefined}]

\* The handle of scheduleCleanup: the interval timer ("none" before the
\* call, "armed", "cleared"), the cleanups it started and the errors its
\* handlers logged.  stopCalled, elapsed and
\* inFlight record the calls of stop(), the intervals that elapsed while
\* the timer was armed, and the cleanups in progress when stop() was called.
NoSchedule ==
  [timer |-> "none", options |-> NoOptions, started |-> 0, elapsed |-> 0,
   runs |-> [r \in Runs |-> Idle], logged |-> 0,
   stopCalled |-> FALSE, inFlight |-> {}]

InProgress(sw) == sw.pc \in {"access", "readdir", "stat", "unlink"}

\* lines 388-414: setInterval, then the initial cleanup up to its first await
ScheduleCleanup(o) ==
  /\ sched.timer = "none"
  /\ sched' = [sched EXCEPT !.timer = "armed", !.options = o,
                            !.started = 1, !.runs[1] = Started(o)]
  /\ UNCHANGED <<sweeperVars, validatorVars, request, download, edgeVars>>

\* lines 393-401: an interval elapses and the callback starts a cleanup
IntervalElapsed ==
  /\ sched.timer = "armed"
  /\ sched.started < MaxRuns
  /\ sched' = [sched EXCEPT !.elapsed = @ + 1,
                            !.started = @ + 1,
                            !.runs[sched.started + 1] = Started(sched.options)]
  /\ UNCHANGED <<sweeperVars, validatorVars, request, download, edgeVars>>

\* a stop() that forgets to clear the interval
Stop_keepInterval ==
  /\ sched.timer = "armed"
  /\ ~sched.stopCalled
  /\ sched' = [sched EXCEPT !.stopCalled = TRUE,
                            !.inFlight = {r \in Runs : InProgress(sched.runs[r])}]
  /\ UNCHANGED <<sweeperVars, validatorVars, request, download, edgeVars>>

\* lines 409-412: stop() clears the interval
Stop ==
  /\ sched.timer = "armed"
  /\ sched' = [sched EXCEPT !.timer = "cleared", !.stopCalled = TRUE,
                            !.inFlight = {r \in Runs : InProgress(sched.runs[r])}]
  /\ UNCHANGED <<sweeperVars, validatorVars, request, download, edgeVars>>

\* the steps of a cleanup the handle started
RunAccess(r) ==
  /\ sched.runs[r].pc = "access"
  /\ sched' = [sched EXCEPT !.runs[r] = AccessStep(@)]
  /\ UNCHANGED <<sweeperVars, validatorVars, request, download, edgeVars>>

RunReaddir(r) ==
  /\ sched.runs[r].pc = "readdir"
  /\ sched' = [sched EXCEPT !.runs[r] = ReaddirStep(@)]
  /\ UNCHANGED <<sweeperVars, validatorVars, request, download, edgeVars>>

RunStat(r) ==
  /\ sched.runs[r].pc = "stat"
  /\ sched' = [sched EXCEPT !.runs[r] = StatStep(@)]
  /\ UNCHANGED <<sweeperVars, validatorVars, request, download, edgeVars>>

RunUnlink(r) ==
  /\ sched.runs[r].pc = "unlink"
  /\ dir' = UnlinkDir(sched.runs[r])
  /\ sched' = [sched EXCEPT !.runs[r] = UnlinkStep(@)]
  /\ UNCHANGED <<dirState, now, sweep, prev, validatorVars, request, download, edgeVars>>

\* a handler that cancels the schedule when a run fails
RunFailed_cancel(r) ==
  /\ sched.runs[r].pc = "threw"
  /\ sched' = [sched EXCEPT !.runs[r].pc = "caught", !.logged = @ + 1,
                            !.timer = "cleared"]
  /\ UNCHANGED <<sweeperVars, validatorVars, request, download, edgeVars>>

\* lines 397-399 and 404-406: the catch of the interval callback, or of the
\* initial run, logs the error
RunFailed(r) ==
  /\ sched.runs[r].pc = "threw"
  /\ sched' = [sched EXCEPT !.runs[r].pc = "caught", !.logged = @ + 1]
  /\ UNCHANGED <<sweeperVars, validatorVars, request, download, edgeVars>>

---------------------------------------------------------------------------
(* The request handlers and the download                                   *)

\* the parameters an earlier validation returned, as an argument again
AsRequest(v) ==
  [kind |-> "object", prompt |-> v.prompt, model |-> Str(v.model),
   size |-> Str(v.size), quality |-> Str(v.quality),
   style |-> IF v.style = "absent" THEN Undefined ELSE Str(v.style),
   n |-> v.n,
   save |-> CASE v.save = "absent" -> Undefined
              [] v.save = "true"   -> Bool(TRUE)
              [] v.save = "false"  -> Bool(FALSE),
   response_format |-> IF v.response_format = "absent" THEN Undefined
                       ELSE Str(v.response_format)]

\* the parameters of openai.images.generate
NoApiParams ==
  [model |-> "", prompt |-> PUndefined, n |-> JsNaN, size |-> "",
   quality |-> "", style |-> "absent", response_format |-> ""]

\* the answer of a handler: an HTTP status or a JSON-RPC error code (0 for
\* a JSON-RPC result), the field of the error, the success flag
NoResponse == [code |-> 0, field |-> "", success |-> FALSE]

\* One generation request: the transport, the position of its handler, the
\* arguments, what the validator did with them, the parameters passed to
\* the client, the calls of the OpenAI API, the answer, whether the
\* interface handler took the saving branch, and whether the image was saved.
NoRequest ==
  [pc |-> "none", transport |-> "http", args |-> NoObj("undefined"),
   validation |-> NotCalled, passed |-> NoValue, apiCalls |-> 0,
   apiParams |-> NoApiParams, response |-> NoResponse,
   saving |-> FALSE, saved |-> FALSE]

\* the bodies body-parser hands to POST /mcp are objects; the arguments of
\* tools/call are whatever the message carries, or undefined
HandlerRequests(t) ==
  (IF t = "http" THEN {p \in SeqRequests : p.kind = "object"} ELSE SeqRequests)
    \cup [kind : {"object"}, prompt : {PStr(0, 11, 0)},
          model : {Undefined, Str("dall-e-2")}, size : {Undefined},
          quality : {Undefined}, style : {Undefined}, n : {NUndefined},
          save : {Undefined, Null, Bool(TRUE), Bool(FALSE)},
          response_format : {Undefined, Str("b64_json")}]

Receive(t, a) ==
  /\ request.pc = "none"
  /\ request' = [NoRequest EXCEPT !.pc = "received", !.transport = t, !.args = a]
  /\ UNCHANGED <<validatorVars, sweeperVars, sched, download, edgeVars>>

\* part_004 lines 146-176 and mcp-server.js lines 164-194: validate, answer
\* a ValidationError with its field, rethrow any other error to the outer
\* catch, otherwise call the client with the validated parameters
HandleRequest ==
  /\ request.pc = "received"
  /\ LET v == validateImageGenerationParams(request.args)
         http == request.transport = "http"
     IN  request' =
           IF v.status = "returned"
             THEN [request EXCEPT
                     !.pc = "generating",
                     !.validation = v,
                     !.passed = IF http THEN v.value
                                ELSE [v.value EXCEPT
                                        !.save = IF v.value.save # "false"
                                                   THEN "true" ELSE "false"]]
           ELSE IF v.error = "ValidationError"
             THEN [request EXCEPT
                     !.pc = "responded",
                     !.validation = v,
                     !.response = [code |-> IF http THEN 400 ELSE 0 - 32602,
                                   field |-> v.field, success |-> FALSE]]
           ELSE [request EXCEPT
                   !.pc = "responded",
                   !.validation = v,
                   !.response = [code |-> IF http THEN 500 ELSE 0 - 32000,
                                 field |-> "", success |-> FALSE]]
  /\ UNCHANGED <<validatorVars, sweeperVars, sched, download, edgeVars>>

\* the answer after the client failed or succeeded
Answered(req, ok) ==
  [req EXCEPT
     !.pc = "responded",
     !.response = IF req.transport = "http"
                    THEN [code |-> 200, field |-> "", success |-> ok]
                    ELSE [code |-> IF ok THEN 0 ELSE 0 - 32000,
                          field |-> "", success |-> ok]]

\* openai-image-gen.js lines 494-515 and 65-104: the interface handler
\* branches on params.save; the client validates what it was passed once
\* more, builds the API parameters and calls the API
ClientCall ==
  /\ request.pc = "generating"
  /\ LET v == validateImageGenerationParams(AsRequest(request.passed))
         saving == request.passed.save = "true"
     IN  request' =
           IF v.status # "returned"
             THEN Answered([request EXCEPT !.saving = saving], FALSE)
           ELSE [request EXCEPT
                   !.pc = "api",
                   !.saving = saving,
                   !.apiCalls = @ + 1,
                   !.apiParams =
                      [model |-> v.value.model, prompt |-> v.value.prompt,
                       n |-> v.value.n, size |-> v.value.size,
                       quality |-> v.value.quality, style |-> v.value.style,
                       response_format |->
                         IF v.value.response_format = "absent" THEN "url"
                         ELSE v.value.response_format]]
  /\ UNCHANGED <<validatorVars, sweeperVars, sched, download, edgeVars>>

\* the API call, and the download that follows it in generateAndSaveImage
\* when the result carries a URL, succeed or fail; the handler answers
ClientReturns(ok) ==
  /\ request.pc = "api"
  /\ request' =
       Answered([request EXCEPT
                   !.saved = ok /\ request.saving
                             /\ request.apiParams.response_format = "url"], ok)
  /\ UNCHANGED <<validatorVars, sweeperVars, sched, download, edgeVars>>

---------------------------------------------------------------------------
(* saveImage                                                               *)

MaxChunks == 2     \* chunks of the image the response carries, at most

\* One call of saveImage: the write stream (file), what is at the target
\* path (onDisk), the flag completed, the timeout timer, the HTTPS request,
\* whether the response is piped to the file with the handlers attached,
\* the promise, the calls of resolve and reject, whether an 'error' event
\* found no handler, and the status and content type of the response.
NoDownload ==
  [called |-> FALSE, file |-> "null", onDisk |-> "absent", written |-> 0,
   completed |-> FALSE, timer |-> "none", req |-> "none", piping |-> FALSE,
   closing |-> FALSE, promise |-> "pending", settles |-> 0, cause |-> "",
   crashed |-> FALSE, statusCode |-> 0, contentType |-> ""]

\* lines 131-144: cleanup(), called with the value of completed at the call
cleanup(d) ==
  LET d1 == [d EXCEPT !.timer = IF @ = "armed" THEN "cleared" ELSE @]
  IN  IF d.file # "null" /\ ~d.completed
        THEN [d1 EXCEPT !.file = "closed", !.onDisk = "absent"]
        ELSE d1

\* reject(error): only the first settlement of a promise counts
reject(d, why) ==
  [d EXCEPT !.promise = IF @ = "pending" THEN "rejected" ELSE @,
            !.cause = IF d.promise = "pending" THEN why ELSE @,
            !.settles = @ + 1]

resolve(d) ==
  [d EXCEPT !.promise = IF @ = "pending" THEN "resolved" ELSE @,
            !.settles = @ + 1]

\* completed = true; cleanup(); reject(error)
Fails(d, why) == reject(cleanup([d EXCEPT !.completed = TRUE]), why)

\* lines 123-160 and 246-251: the synchronous part of the call: the write
\* stream, the timer, the request; https.get throws on a URL it cannot use
SaveImage(urlOk) ==
  /\ ~download.called
  /\ LET d == [download EXCEPT !.called = TRUE, !.file = "opening",
                               !.timer = "armed"]
     IN  download' = IF urlOk THEN [d EXCEPT !.req = "sent"]
                     ELSE Fails(d, "unexpected")
  /\ UNCHANGED <<validatorVars, sweeperVars, sched, request, edgeVars>>

\* the write stream has opened the target path: the file exists, empty
FileOpened ==
  /\ download.file = "opening"
  /\ download' = [download EXCEPT !.file = "open", !.onDisk = "partial"]
  /\ UNCHANGED <<validatorVars, sweeperVars, sched, request, edgeVars>>

\* lines 198-204: the write stream emits 'error'; the handler is attached
\* only once a response is piped
FileError ==
  /\ download.file \in {"opening", "open"}
  /\ ~download.crashed
  /\ LET d == [download EXCEPT !.file = "failed"]
     IN  download' =
           IF ~download.piping THEN [d EXCEPT !.crashed = TRUE]
           ELSE IF ~download.completed THEN Fails(d, "file")
           ELSE d
  /\ UNCHANGED <<validatorVars, sweeperVars, sched, request, edgeVars>>

\* lines 150-159: the download timer fires
Timeout ==
  /\ download.timer = "armed"
  /\ LET d == [download EXCEPT !.timer = "fired"]
     IN  download' = IF ~download.completed THEN Fails(d, "timeout") ELSE d
  /\ UNCHANGED <<validatorVars, sweeperVars, sched, request, edgeVars>>

\* the content types a response carries; "" is a response without the header
ContentTypes == {"", "image/png", "text/html"}

\* contentType.startsWith('image/')
IsImageType(t) == t = "image/png"

\* lines 161-186: the response arrives; status and content type are checked
Response(status, contentType) ==
  /\ download.req = "sent"
  /\ LET d == [download EXCEPT !.req = "responded", !.statusCode = status,
                               !.contentType = contentType]
     IN  download' =
           IF status # 200 THEN Fails(d, "status")
           ELSE IF contentType # "" /\ ~IsImageType(contentType)
             THEN Fails(d, "content-type")
           ELSE [d EXCEPT !.piping = TRUE]
  /\ UNCHANGED <<validatorVars, sweeperVars, sched, request, edgeVars>>

\* response.pipe(file) writes a chunk
Chunk ==
  /\ download.piping /\ download.req = "responded"
  /\ download.file = "open"
  /\ download.written < MaxChunks
  /\ download' = [download EXCEPT !.written = @ + 1]
  /\ UNCHANGED <<validatorVars, sweeperVars, sched, request, edgeVars>>

\* lines 189-196: the response stream emits 'error'
ResponseError ==
  /\ download.piping /\ download.req = "responded"
  /\ LET d == [download EXCEPT !.req = "failed"]
     IN  download' = IF ~download.completed THEN Fails(d, "response") ELSE d
  /\ UNCHANGED <<validatorVars, sweeperVars, sched, request, edgeVars>>

\* lines 207-221: the response has ended and the write stream emits 'finish'
FileFinish ==
  /\ download.piping /\ download.req = "responded"
  /\ download.file = "open"
  /\ LET d == [download EXCEPT !.req = "ended", !.file = "finished",
                               !.onDisk = "complete"]
     IN  download' =
           IF ~download.completed
             THEN [d EXCEPT !.completed = TRUE, !.closing = TRUE,
                            !.timer = IF @ = "armed" THEN "cleared" ELSE @]
             ELSE d
  /\ UNCHANGED <<validatorVars, sweeperVars, sched, request, edgeVars>>

\* lines 211-219: the callback of file.close
Closed(err) ==
  /\ download.closing
  /\ LET d == [download EXCEPT !.closing = FALSE, !.file = "closed"]
     IN  download' = IF err THEN reject(d, "close") ELSE resolve(d)
  /\ UNCHANGED <<validatorVars, sweeperVars, sched, request, edgeVars>>

\* lines 225-232: the request emits 'error'
RequestError ==
  /\ download.req = "sent"
  /\ LET d == [download EXCEPT !.req = "failed"]
     IN  download' = IF ~download.completed THEN Fails(d, "request") ELSE d
  /\ UNCHANGED <<validatorVars, sweeperVars, sched, request, edgeVars>>

\* lines 235-245: the socket of the request has been idle for the timeout
RequestTimeout ==
  /\ download.req \in {"sent", "responded"}
  /\ ~download.completed
  /\ download' = Fails([download EXCEPT !.req = "destroyed"], "request-timeout")
  /\ UNCHANGED <<validatorVars, sweeperVars, sched, request, edgeVars>>

---------------------------------------------------------------------------
(* authMiddleware                                                          *)

MaxHeader == 5     \* symbols of an Authorization header, at most
MaxToken == 2      \* symbols of the configured token, at most

\* A string is a sequence of symbols; "Bearer" and "Basic" stand for the
\* words, the other symbols for single characters.
StringsOver(alphabet, n) == UNION {[1..k -> alphabet] : k \in 0..n}

\* req.headers.authorization: absent, or a string; the HTTP parser strips
\* the white space around a header value
Headers ==
  {[kind |-> "undefined", s |-> <<>>]}
    \cup {[kind |-> "string", s |-> h] :
            h \in {x \in StringsOver({"Bearer", "Basic", " ", "a", "b"}, MaxHeader) :
                     x = <<>> \/ (x[1] # " " /\ x[Len(x)] # " ")}}

\* process.env.MCP_AUTH_TOKEN: unset, or a string
EnvTokens ==
  {[kind |-> "undefined", s |-> <<>>]}
    \cup {[kind |-> "string", s |-> t] : t \in StringsOver({"a", "b", " "}, MaxToken)}

\* authHeader.startsWith('Bearer ')
StartsWithBearer(h) == Len(h) >= 2 /\ h[1] = "Bearer" /\ h[2] = " "

\* authHeader.split(' ')[1]: the text between the first space and the next
\* one (or the end); undefined when the header has no space
SecondField(h) ==
  LET spaces == {i \in 1..Len(h) : h[i] = " "}
      least(S) == CHOOSE i \in S : \A j \in S : i <= j
  IN  IF spaces = {} THEN [kind |-> "undefined", s |-> <<>>]
      ELSE LET i == least(spaces)
               later == {j \in spaces : j > i}
               j == IF later = {} THEN Len(h) + 1 ELSE least(later)
           IN  [kind |-> "string", s |-> SubSeq(h, i + 1, j - 1)]

\* lines 15-32: false for values that are not strings and for buffers of
\* different lengths, otherwise the comparison of the bytes
timingSafeEqual(a, b) ==
  IF a.kind # "string" \/ b.kind # "string" THEN FALSE
  ELSE IF Len(a.s) # Len(b.s) THEN FALSE
  ELSE \A i \in 1..Len(a.s) : a.s[i] = b.s[i]

\* a value is falsy when it is undefined or the empty string
Falsy(v) == v.kind = "undefined" \/ v.s = <<>>

\* One request at the middleware: the environment token, the header, the
\* calls of next and the statuses answered.
NoAuth ==
  [pc |-> "none", env |-> [kind |-> "undefined", s |-> <<>>],
   header |-> [kind |-> "undefined", s |-> <<>>], nextCalls |-> 0,
   answered |-> <<>>]

\* a request reaches the middleware
AuthRequest ==
  /\ auth.pc = "none"
  /\ \E env \in EnvTokens : \E header \in Headers :
       auth' = [auth EXCEPT !.pc = "received", !.env = env, !.header = header]
  /\ UNCHANGED <<validatorVars, sweeperVars, sched, request, download,
                 server, stdio, metrics>>

\* lines 40-69
authMiddleware ==
  /\ auth.pc = "received"
  /\ LET a == [auth EXCEPT !.pc = "done"]
         token == SecondField(auth.header.s)
     IN  auth' =
           IF Falsy(auth.env)
             THEN [a EXCEPT !.nextCalls = @ + 1]
           ELSE IF Falsy(auth.header) \/ ~StartsWithBearer(auth.header.s)
             THEN [a EXCEPT !.answered = Append(@, 401)]
           ELSE IF Falsy(token) \/ ~timingSafeEqual(token, auth.env)
             THEN [a EXCEPT !.answered = Append(@, 403)]
           ELSE [a EXCEPT !.nextCalls = @ + 1]
  /\ UNCHANGED <<validatorVars, sweeperVars, sched, request, download,
                 server, stdio, metrics>>

---------------------------------------------------------------------------
(* validateConfig and the startup of the HTTP server                       *)

\* process.env: the variables the server's configuration is about
ServerEnvs ==
  [OPENAI_API_KEY : {Undefined, Str("sk-key")},
   OUTPUT_DIR : {Undefined, Str(""), Str("./generated-images"), Str("/data/images")},
   IMAGE_CLEANUP_ENABLED : {Undefined, Str("true"), Str("false")},
   IMAGE_RETENTION_DAYS : {Undefined, Str("1")},
   IMAGE_MAX_COUNT : {Undefined, Str("1")},
   IMAGE_CLEANUP_INTERVAL_HOURS : {Undefined, Str("1")}]

NoEnv ==
  [OPENAI_API_KEY |-> Undefined, OUTPUT_DIR |-> Undefined,
   IMAGE_CLEANUP_ENABLED |-> Undefined, IMAGE_RETENTION_DAYS |-> Undefined,
   IMAGE_MAX_COUNT |-> Undefined, IMAGE_CLEANUP_INTERVAL_HOURS |-> Undefined]

\* part_005 lines 28-30: process.env[varName] || defaultValue
getEnvVar(v, defaultValue) == IF Truthy(v) THEN v ELSE Str(defaultValue)

\* part_005 lines 143-153: the configuration object; it has no property
\* for the image cleanup, so reading one yields undefined
ConfigOf(env) ==
  [apiKey |-> env.OPENAI_API_KEY,
   outputDir |-> getEnvVar(env.OUTPUT_DIR, "./generated-images"),
   imageCleanupEnabled |-> Undefined, imageRetentionDays |-> Undefined,
   imageMaxCount |-> Undefined, imageCleanupIntervalHours |-> Undefined]

\* path.join(process.cwd(), 'generated-images')
DefaultImagesDir == "/app/generated-images"

\* the directory a path names to the file system: a relative path is
\* resolved against the working directory
ResolvePath(p) ==
  IF p = "./generated-images" THEN DefaultImagesDir ELSE p

\* The server process: its environment, the configuration validateConfig
\* returned, the directory of the image client, the directory the server
\* serves under /images and hands to the sweeper, and the calls of
\* scheduleCleanup with their options.
NoServer ==
  [pc |-> "none", env |-> NoEnv, config |-> ConfigOf(NoEnv), clientDir |-> "",
   imagesDir |-> "", servedDir |-> "", schedules |-> 0,
   scheduleDir |-> "", scheduleOptions |-> NoOptions]

\* part_004 lines 13-18: the process starts with an environment
LoadEnv ==
  /\ server.pc = "none"
  /\ \E env \in ServerEnvs : server' = [server EXCEPT !.pc = "env", !.env = env]
  /\ UNCHANGED <<validatorVars, sweeperVars, sched, request, download,
                 auth, stdio, metrics>>

\* part_005 lines 116-173: a missing API key ends the process
validateConfig ==
  /\ server.pc = "env"
  /\ server' = IF ~Truthy(server.env.OPENAI_API_KEY)
                 THEN [server EXCEPT !.pc = "exited"]
                 ELSE [server EXCEPT !.pc = "configured",
                                     !.config = ConfigOf(server.env)]
  /\ UNCHANGED <<validatorVars, sweeperVars, sched, request, download,
                 auth, stdio, metrics>>

\* part_004 lines 39-66: the client, the images directory, the static
\* route and the cleanup schedule
StartServer ==
  /\ server.pc = "configured"
  /\ LET c == server.config
         imagesDir == IF Truthy(c.outputDir) THEN c.outputDir.s
                      ELSE DefaultImagesDir
         \* config.imageRetentionDays * 24 * 60 * 60 * 1000: a product with
         \* undefined is NaN
         o == [retentionMs |-> IF c.imageRetentionDays.t = "number"
                                 THEN c.imageRetentionDays
                                 ELSE [t |-> "number", s |-> "NaN", n |-> 0],
               maxFiles |-> c.imageMaxCount, dryRun |-> Undefined]
         s1 == [server EXCEPT !.pc = "started",
                              !.clientDir = DefaultImagesDir,
                              !.imagesDir = ResolvePath(imagesDir),
                              !.servedDir = ResolvePath(imagesDir)]
     IN  IF Truthy(c.imageCleanupEnabled)
           THEN /\ server' = [s1 EXCEPT !.schedules = @ + 1,
                                        !.scheduleDir = ResolvePath(imagesDir),
                                        !.scheduleOptions = o]
                /\ sched' = [sched EXCEPT !.timer = "armed", !.options = o,
                                          !.started = 1, !.runs[1] = Started(o)]
           ELSE /\ server' = s1
                /\ sched' = sched
  /\ UNCHANGED <<validatorVars, sweeperVars, request, download,
                 auth, stdio, metrics>>
---------------------------------------------------------------------------
(* The stdio JSON-RPC server                                               *)

MaxMessages == 2   \* lines the server reads, at most

\* params of a message: absent, or an object with a tool name and
\* arguments; the arguments of generate_image are absent, without a prompt,
\* or acceptable
NoParams == [kind |-> "undefined", name |-> "", arguments |-> NoObj("undefined")]

MessageParams ==
  {NoParams}
    \cup {[kind |-> "object", name |-> "other", arguments |-> NoObj("undefined")]}
    \cup {[kind |-> "object", name |-> "generate_image", arguments |-> a] :
            a \in {NoObj("undefined"), NoObj("object"),
                   [NoObj("object") EXCEPT !.prompt = PStr(0, 11, 0)]}}

\* What JSON.parse makes of a line: it throws ("garbage"), or yields null, a
\* number, or an object with the properties the handler reads.
Messages ==
  {[kind |-> k, jsonrpc |-> Undefined, id |-> Undefined, method |-> "unknown",
    params |-> NoParams] : k \in {"garbage", "null", "number"}}
    \cup {[kind |-> "object", jsonrpc |-> j, id |-> i, method |-> m, params |-> q] :
            j \in {Str("2.0"), Str("1.0")},
            i \in {Undefined, Null, Num(0), Num(1)},
            m \in {"initialize", "notifications/initialized", "tools/list",
                   "resources/list", "tools/call", "unknown"},
            q \in MessageParams}

\* a response on stdout: the message it answers, its id (Undefined when
\* JSON.stringify drops the property) and its error code (0 for a result)
Reply(i, id, code) == [for |-> i, id |-> id, code |-> code]

\* request.id || null
IdOrNull(id) == IF Truthy(id) THEN id ELSE Null

\* The server: the messages read, the calls of generate_image in progress,
\* the lines written to stdout that answer a message, the initialized flag,
\* the timers of initialize, the notifications written, and whether the
\* process has exited.
NoStdio ==
  [msgs |-> <<>>, pending |-> {}, out |-> <<>>, initialized |-> FALSE,
   timers |-> 0, notifications |-> 0, exited |-> FALSE]

\* what a call of handleRequest has done when it returns or first awaits
Written(out) == [await |-> FALSE, out |-> out]

\* lines 164-247: tools/call up to the call of the interface handler;
\* await |-> TRUE stands for the call in progress
ToolsCall(i, m) ==
  IF m.params.kind # "object"
    THEN Written(<<Reply(i, IdOrNull(m.id), 0 - 32603)>>)
  ELSE IF m.params.name # "generate_image"
    THEN Written(<<Reply(i, m.id, 0 - 32601)>>)
  ELSE LET v == validateImageGenerationParams(m.params.arguments)
       IN  IF v.status = "returned" THEN [await |-> TRUE, out |-> <<>>]
           ELSE IF v.error = "ValidationError"
             THEN Written(<<Reply(i, m.id, 0 - 32602)>>)
           ELSE Written(<<Reply(i, m.id, 0 - 32000)>>)

\* lines 34-277: what handleRequest writes or returns for message i
handleRequest(i, m) ==
  IF m.jsonrpc # Str("2.0")
    THEN Written(<<Reply(i, IdOrNull(m.id), 0 - 32600)>>)
  ELSE CASE m.method = "initialize" -> Written(<<Reply(i, m.id, 0)>>)
         [] m.method = "notifications/initialized" -> Written(<<>>)
         [] m.method \in {"tools/list", "resources/list"} -> Written(<<Reply(i, m.id, 0)>>)
         [] m.method = "tools/call" -> ToolsCall(i, m)
         [] OTHER -> IF m.id # Undefined THEN Written(<<Reply(i, m.id, 0 - 32601)>>)
                     ELSE Written(<<>>)

\* lines 279-325: a line arrives and is handled up to its response or up to
\* the call of the image client
ProcessInput ==
  /\ ~stdio.exited
  /\ Len(stdio.msgs) < MaxMessages
  /\ \E m \in Messages :
       LET i == Len(stdio.msgs) + 1
           st == [stdio EXCEPT !.msgs = Append(@, m)]
           r == handleRequest(i, m)
       IN  stdio' =
             CASE m.kind = "garbage" ->
                    [st EXCEPT !.out = Append(@, Reply(i, Null, 0 - 32700))]
               [] m.kind = "null" -> [st EXCEPT !.exited = TRUE]
               [] m.kind = "number" ->
                    [st EXCEPT !.out = Append(@, Reply(i, Null, 0 - 32600))]
               [] OTHER ->
                    IF r.await THEN [st EXCEPT !.pending = @ \cup {i}]
                    ELSE [st EXCEPT
                            !.out = @ \o r.out,
                            !.initialized =
                               @ \/ (m.jsonrpc = Str("2.0") /\ m.method = "initialize"),
                            !.timers =
                               IF m.jsonrpc = Str("2.0") /\ m.method = "initialize"
                                 THEN @ + 1 ELSE @]
  /\ UNCHANGED <<validatorVars, sweeperVars, sched, request, download,
                 auth, server, metrics>>

\* lines 74-82: the timer of initialize writes the notification
InitializedTimer ==
  /\ ~stdio.exited
  /\ stdio.timers > 0
  /\ stdio' = [stdio EXCEPT !.timers = @ - 1,
                            !.notifications =
                               IF stdio.initialized THEN @ + 1 ELSE @]
  /\ UNCHANGED <<validatorVars, sweeperVars, sched, request, download,
                 auth, server, metrics>>

\* lines 196-238: the interface handler returns for the call of message i
GenerateReturns(i, ok) ==
  /\ ~stdio.exited
  /\ i \in stdio.pending
  /\ stdio' = [stdio EXCEPT
                 !.pending = @ \ {i},
                 !.out = Append(@, Reply(i, stdio.msgs[i].id,
                                            IF ok THEN 0 ELSE 0 - 32000))]
  /\ UNCHANGED <<validatorVars, sweeperVars, sched, request, download,
                 auth, server, metrics>>
---------------------------------------------------------------------------
(* MetricsStore                                                            *)

MaxRecordings == 1500  \* recordHistogram calls on one key between resets
MaxCount == 1          \* the value a counter may reach
MaxResets == 1         \* calls of reset

\* line 395: the stored samples of a histogram
MaxSamples == 1000

\* the values a caller records, one after the other: 0, 1, 2, ...
\* ("rising"); a high value first; a low value first
StreamValue(st, i) ==
  CASE st = "rising" -> i - 1
    [] st = "highFirst" -> IF i = 1 THEN 9 ELSE 2 + (i % 2)
    [] OTHER -> IF i = 1 THEN 0 ELSE 2 + (i % 2)

\* a finite number; inf |-> TRUE is Infinity or -Infinity
Finite(n) == [inf |-> FALSE, n |-> n]

\* Math.min(histogram.min, value) and Math.max(histogram.max, value)
MathMin(m, v) == IF m.inf \/ v < m.n THEN Finite(v) ELSE m
MathMax(m, v) == IF m.inf \/ v > m.n THEN Finite(v) ELSE m

\* lines 378-386: the histogram a first recording starts from
NewHistogram ==
  [count |-> 0, sum |-> 0, min |-> [inf |-> TRUE, n |-> 0],
   max |-> [inf |-> TRUE, n |-> 0], values |-> <<>>]

\* a recording that counts the stored samples
recordHistogram_countStored(histogram, value) ==
  LET pushed == Append(histogram.values, value)
      kept == IF Len(pushed) > MaxSamples THEN Tail(pushed) ELSE pushed
  IN  [count |-> Len(kept),
       sum |-> histogram.sum + value,
       min |-> MathMin(histogram.min, value),
       max |-> MathMax(histogram.max, value),
       values |-> kept]

\* lines 388-397: count, sum, min, max, push, and the shift past the cap
recordHistogram(histogram, value) ==
  LET pushed == Append(histogram.values, value)
  IN  [count |-> histogram.count + 1,
       sum |-> histogram.sum + value,
       min |-> MathMin(histogram.min, value),
       max |-> MathMax(histogram.max, value),
       values |-> IF Len(pushed) > MaxSamples THEN Tail(pushed) ELSE pushed]

\* The store: the three maps as sets of entries under one key each, the
\* stream the caller records from, the recordHistogram calls since the
\* store was last empty, the calls of reset, and the last operation.
NoMetrics ==
  [counters |-> {}, gauges |-> {}, histograms |-> {}, stream |-> "rising",
   calls |-> 0, resets |-> 0, last |-> "none"]

\* lines 351-356
IncrementCounter ==
  /\ \A c \in metrics.counters : c.value < MaxCount
  /\ LET current == IF metrics.counters = {} THEN [key |-> "requests", value |-> 0]
                    ELSE CHOOSE c \in metrics.counters : TRUE
     IN  metrics' = [metrics EXCEPT
                      !.counters = {[current EXCEPT !.value = @ + 1]},
                      !.last = "incrementCounter"]
  /\ UNCHANGED <<validatorVars, sweeperVars, sched, request, download,
                 auth, server, stdio>>

\* lines 364-367
SetGauge ==
  /\ metrics.gauges = {}
  /\ metrics' = [metrics EXCEPT !.gauges = {[key |-> "temperature", value |-> 25]},
                                !.last = "setGauge"]
  /\ UNCHANGED <<validatorVars, sweeperVars, sched, request, download,
                 auth, server, stdio>>

\* lines 375-400: the caller records the next value of its stream
RecordHistogram ==
  /\ metrics.calls < MaxRecordings
  /\ \E st \in (IF metrics.calls = 0 THEN {"rising", "highFirst", "lowFirst"} ELSE {metrics.stream}) :
       LET histogram == IF metrics.histograms = {} THEN NewHistogram
                   ELSE (CHOOSE h \in metrics.histograms : TRUE).entry
           value == StreamValue(st, metrics.calls + 1)
       IN  metrics' = [metrics EXCEPT
                        !.histograms = {[key |-> "response_time",
                                         entry |-> recordHistogram(histogram, value)]},
                        !.stream = st,
                        !.calls = @ + 1,
                        !.last = "recordHistogram"]
  /\ UNCHANGED <<validatorVars, sweeperVars, sched, request, download,
                 auth, server, stdio>>

\* lines 510-514
Reset ==
  /\ metrics.resets < MaxResets
  /\ metrics' = [metrics EXCEPT !.counters = {}, !.gauges = {},
                                !.histograms = {}, !.calls = 0,
                                !.resets = @ + 1, !.last = "reset"]
  /\ UNCHANGED <<validatorVars, sweeperVars, sched, request, download,
                 auth, server, stdio>>

---------------------------------------------------------------------------
(* Specifications                                                          *)

ValidatorIdle ==
  /\ params = NoObj("undefined")
  /\ vpc = "done"
  /\ outcome = NotCalled
  /\ hist = NoHist

\* no schedule, no request and no download exist
OthersIdle ==
  /\ sched = NoSchedule
  /\ request = NoRequest
  /\ download = NoDownload
  /\ auth = NoAuth
  /\ server = NoServer
  /\ stdio = NoStdio
  /\ metrics = NoMetrics

SweeperIdle ==
  /\ dir = [e \in Entries |-> Absent]
  /\ dirState = "ok"
  /\ now = Now0
  /\ sweep = Idle
  /\ prev = NoPrev

\* a memoising validator: an omitted model takes the model of the last result
Validate_remember ==
  /\ vpc = "called"
  /\ outcome' = validateImageGenerationParams(
       IF outcome.status = "returned" /\ params.model.t = "undefined"
         THEN [params EXCEPT !.model = Str(outcome.value.model)]
         ELSE params)
  /\ vpc' = "done"
  /\ hist' = Recorded(hist, params, outcome')
  /\ UNCHANGED <<params, sweeperVars, sched, request, download, edgeVars>>

\* validateImageGenerationParams(params) runs to its return or throw
Validate ==
  /\ vpc = "called"
  /\ outcome' = validateImageGenerationParams(params)
  /\ vpc' = "done"
  /\ hist' = Recorded(hist, params, outcome')
  /\ UNCHANGED <<params, sweeperVars, sched, request, download, edgeVars>>

\* the next call of the validator, with any argument
Call(p) ==
  /\ vpc = "done"
  /\ hist.valid
  /\ params' = p
  /\ vpc' = "called"
  /\ UNCHANGED <<outcome, hist, sweeperVars, sched, request, download, edgeVars>>

InitValidator ==
  /\ params \in Requests
  /\ vpc = "called"
  /\ outcome = NotCalled
  /\ hist = NoHist
  /\ SweeperIdle
  /\ OthersIdle

NextValidator == Validate

SpecValidator == InitValidator /\ [][NextValidator]_vars

InitSweeper ==
  /\ ValidatorIdle
  /\ OthersIdle
  /\ dirState \in {"ok", "missing", "unreadable"}
  /\ dir \in IF dirState = "missing" THEN {[e \in Entries |-> Absent]}
               ELSE Directories
  /\ dirState = "unreadable" => \A e \in Entries : ~Faulty(dir[e])
  /\ now = Now0
  /\ sweep = Idle
  /\ prev = NoPrev

NextSweeper ==
  \/ \E o \in Options : CleanupStart(o)
  \/ StatsStart
  \/ ScanStart
  \/ Access
  \/ Readdir
  \/ Stat
  \/ Unlink
  \/ Return
  \/ Tick

SpecSweeper == InitSweeper /\ [][NextSweeper]_vars

\* the directories of the schedule: files written before the retention
\* limit or after it; a file that cannot be read or deleted is an old one
ScheduleDirectories ==
  {d \in Directories :
     \A e \in Entries :
       d[e].present => /\ d[e].mtime \in {3, 9}
                       /\ Faulty(d[e]) => d[e].mtime = 3}

InitSchedule ==
  /\ ValidatorIdle
  /\ dirState \in {"ok", "missing", "unreadable"}
  /\ dir \in IF dirState = "missing" THEN {[e \in Entries |-> Absent]}
               ELSE ScheduleDirectories
  /\ dirState = "unreadable" => \A e \in Entries : ~Faulty(dir[e])
  /\ now = Now0
  /\ sweep = Idle
  /\ prev = NoPrev
  /\ OthersIdle

NextSchedule ==
  \/ \E o \in ScheduleOptions : ScheduleCleanup(o)
  \/ IntervalElapsed
  \/ Stop
  \/ \E r \in Runs : RunAccess(r)
  \/ \E r \in Runs : RunReaddir(r)
  \/ \E r \in Runs : RunStat(r)
  \/ \E r \in Runs : RunUnlink(r)
  \/ \E r \in Runs : RunFailed(r)

SpecSchedule == InitSchedule /\ [][NextSchedule]_vars

InitValidatorSeq ==
  /\ params \in SeqRequests
  /\ vpc = "called"
  /\ outcome = NotCalled
  /\ hist = NoHist
  /\ SweeperIdle
  /\ OthersIdle

NextValidatorSeq ==
  \/ Validate
  \/ \E p \in SeqRequests : Call(p)

SpecValidatorSeq == InitValidatorSeq /\ [][NextValidatorSeq]_vars

Transports == {"http", "jsonrpc"}

InitHandler ==
  /\ ValidatorIdle
  /\ SweeperIdle
  /\ OthersIdle

NextHandler ==
  \/ \E t \in Transports : \E a \in HandlerRequests(t) : Receive(t, a)
  \/ HandleRequest
  \/ ClientCall
  \/ \E ok \in BOOLEAN : ClientReturns(ok)

SpecHandler == InitHandler /\ [][NextHandler]_vars

InitDownload ==
  /\ ValidatorIdle
  /\ SweeperIdle
  /\ OthersIdle

NextDownload ==
  \/ \E urlOk \in BOOLEAN : SaveImage(urlOk)
  \/ FileOpened
  \/ FileError
  \/ Timeout
  \/ \E status \in {200, 404} : \E t \in ContentTypes : Response(status, t)
  \/ Chunk
  \/ ResponseError
  \/ FileFinish
  \/ \E err \in BOOLEAN : Closed(err)
  \/ RequestError
  \/ RequestTimeout

SpecDownload == InitDownload /\ [][NextDownload]_vars

InitAuth ==
  /\ ValidatorIdle
  /\ SweeperIdle
  /\ OthersIdle

NextAuth ==
  \/ AuthRequest
  \/ authMiddleware

SpecAuth == InitAuth /\ [][NextAuth]_vars

InitServer ==
  /\ ValidatorIdle
  /\ SweeperIdle
  /\ OthersIdle

NextServer ==
  \/ LoadEnv
  \/ validateConfig
  \/ StartServer

SpecServer == InitServer /\ [][NextServer]_vars

InitStdio ==
  /\ ValidatorIdle
  /\ SweeperIdle
  /\ OthersIdle

NextStdio ==
  \/ ProcessInput
  \/ InitializedTimer
  \/ \E i \in 1..MaxMessages : \E ok \in BOOLEAN : GenerateReturns(i, ok)

SpecStdio == InitStdio /\ [][NextStdio]_vars

InitMetrics ==
  /\ ValidatorIdle
  /\ SweeperIdle
  /\ OthersIdle

NextMetrics ==
  \/ IncrementCounter
  \/ SetGauge
  \/ RecordHistogram
  \/ Reset

SpecMetrics == InitMetrics /\ [][NextMetrics]_vars

Init == InitValidator
Next == NextValidator
Spec == SpecValidator

---------------------------------------------------------------------------
(* The rules of the specification, stated on the request                   *)

Fields == {"prompt", "model", "size", "quality", "style", "n", "response_format"}

\* the model capability table
CapSizes(m) ==
  IF m = "dall-e-2" THEN {"256x256", "512x512", "1024x1024"}
  ELSE {"1024x1024", "1792x1024", "1024x1792"}
CapQualities(m) == IF m = "dall-e-2" THEN {"standard"} ELSE {"standard", "hd"}
CapN(m)         == IF m = "dall-e-2" THEN 1 .. 10 ELSE {1}

Omitted(v) == v.t = "undefined"

\* the model a request resolves to when its model field is valid
Resolved(p) == IF Omitted(p.model) THEN "dall-e-3" ELSE p.model.s

\* a string that denotes an integer: decimal digits only
DenotesInteger(cs) == cs # <<>> /\ \A k \in 1 .. Len(cs) : cs[k] \in Digits

\* the field satisfies its rule (an omitted optional field does)
ValidField(p, f) ==
  CASE f = "prompt" ->
         p.prompt.t = "string" /\ p.prompt.body >= 1 /\ p.prompt.body <= 4000
    [] f = "model" ->
         Omitted(p.model) \/ p.model \in {Str("dall-e-2"), Str("dall-e-3")}
    [] f = "size" ->
         Omitted(p.size)
         \/ (p.size.t = "string" /\ p.size.s \in CapSizes(Resolved(p)))
    [] f = "quality" ->
         Omitted(p.quality)
         \/ (p.quality.t = "string" /\ p.quality.s \in CapQualities(Resolved(p)))
    [] f = "style" ->
         Omitted(p.style) \/ Resolved(p) = "dall-e-2"
         \/ p.style \in {Str("vivid"), Str("natural")}
    [] f = "n" ->
         \/ p.n.t = "undefined"
         \/ (p.n.t = "number" /\ ~p.n.nan /\ ~p.n.frac /\ p.n.k \in CapN(Resolved(p)))
         \/ (p.n.t = "string" /\ DenotesInteger(p.n.cs)
             /\ DigitRun(p.n.cs, 0, 0)[1] \in CapN(Resolved(p)))
    [] f = "response_format" ->
         Omitted(p.response_format)
         \/ p.response_format \in {Str("url"), Str("b64_json")}

AllValidExcept(p, f) == \A g \in Fields \ {f} : ValidField(p, g)

Finished == vpc = "done" /\ params.kind = "object"
Rejected(f) ==
  outcome.status = "threw" /\ outcome.error = "ValidationError" /\ outcome.field = f

---------------------------------------------------------------------------
(* C1 - C5: the validator                                                  *)

\* C1: every result of validateImageGenerationParams is a combination the
\* capability table allows: model dall-e-2 or dall-e-3, size and quality in
\* that model's sets, n an integer in 1..10 (dall-e-2) or 1 (dall-e-3),
\* style vivid or natural for dall-e-3 and absent for dall-e-2.
C1_ResultConsistent ==
  (vpc = "done" /\ outcome.status = "returned") =>
    LET v == outcome.value
    IN  /\ v.n.t = "number" /\ ~v.n.nan /\ ~v.n.frac
        /\ \/ /\ v.model = "dall-e-2"
              /\ v.size \in {"256x256", "512x512", "1024x1024"}
              /\ v.quality = "standard"
              /\ v.n.k \in 1 .. 10
              /\ v.style = "absent"
           \/ /\ v.model = "dall-e-3"
              /\ v.size \in {"1024x1024", "1792x1024", "1024x1792"}
              /\ v.quality \in {"standard", "hd"}
              /\ v.n.k = 1
              /\ v.style \in {"vivid", "natural"}

\* a dall-e-2 request with an empty size, a style and a string n is accepted
C1_Witness ==
  /\ vpc = "done" /\ outcome.status = "returned"
  /\ params.model = Str("dall-e-2") /\ params.size = Str("")
  /\ params.style = Str("anime") /\ params.n = NStr(<<"1", "0">>)
  /\ outcome.value.n = JsNum(10)

\* C2: a string prompt whose trimmed length is in 1..4000, the other fields
\* valid or omitted, is accepted and the result's prompt is the trimmed input.
C2_TrimmedPromptAccepted ==
  (Finished /\ ValidField(params, "prompt") /\ AllValidExcept(params, "prompt")) =>
    /\ outcome.status = "returned"
    /\ outcome.value.prompt = PStr(0, params.prompt.body, 0)

\* C3: when exactly one field violates its rule (an empty or blank prompt,
\* hd with dall-e-2, n = 2 with dall-e-3, a size outside the resolved
\* model's sizes, a response_format other than url or b64_json) and all
\* others are valid, the error names that field; n = 2 with dall-e-2 is
\* accepted with n = 2.
C3_SingleViolation ==
  Finished =>
    /\ (params.prompt.t = "string" /\ params.prompt.body = 0
        /\ AllValidExcept(params, "prompt")) => Rejected("prompt")
    /\ (params.model = Str("dall-e-2") /\ params.quality = Str("hd")
        /\ AllValidExcept(params, "quality")) => Rejected("quality")
    /\ (Resolved(params) = "dall-e-3" /\ params.n = JsNum(2)
        /\ AllValidExcept(params, "n")) => Rejected("n")
    /\ (params.model = Str("dall-e-2") /\ params.n = JsNum(2)
        /\ AllValidExcept(params, "n")) =>
           (outcome.status = "returned" /\ outcome.value.n = JsNum(2))
    /\ (params.size.t = "string" /\ params.size.s # ""
        /\ params.size.s \notin CapSizes(Resolved(params))
        /\ AllValidExcept(params, "size")) => Rejected("size")
    /\ (~ValidField(params, "response_format")
        /\ AllValidExcept(params, "response_format")) => Rejected("response_format")

\* C4: every failure of the validator is a ValidationError with a field tag.
C4_TypedErrors ==
  (vpc = "done" /\ outcome.status = "threw") =>
    (outcome.error = "ValidationError" /\ outcome.field \in Fields)

\* the first field, in the given order, whose validator rejects the request
RejectedBy(p, f) ==
  LET m == validateModel(p.model).v
  IN  CASE f = "prompt"  -> ~validatePrompt(p.prompt).ok
        [] f = "model"   -> ~validateModel(p.model).ok
        [] f = "size"    -> ~validateSize(p.size, m).ok
        [] f = "quality" -> ~validateQuality(p.quality, m).ok
        [] f = "style"   -> ~validateStyle(p.style, m).ok
        [] f = "n"       -> ~validateN(p.n, m).ok
        [] f = "response_format" ->
             ~(Omitted(p.response_format)
               \/ p.response_format \in {Str("url"), Str("b64_json")})

FirstRejected(p, order) ==
  LET ks == {k \in 1 .. Len(order) : RejectedBy(p, order[k])}
  IN  order[CHOOSE k \in ks : \A l \in ks : k <= l]

SeveralRejected(p) == Cardinality({f \in Fields : RejectedBy(p, f)}) >= 2

\* C5 as stated: with several invalid fields the error reports the first in
\* the order prompt, model, size, quality, style, n, response_format.
C5_OrderStyleBeforeN ==
  (Finished /\ SeveralRejected(params)) =>
    Rejected(FirstRejected(params,
      <<"prompt", "model", "size", "quality", "style", "n", "response_format">>))

\* C5 amended: the order is prompt, model, size, quality, n, style,
\* response_format; the error reports the first rejected field in it.
C5_OrderNBeforeStyle ==
  (Finished /\ SeveralRejected(params)) =>
    Rejected(FirstRejected(params,
      <<"prompt", "model", "size", "quality", "n", "style", "response_format">>))

\* dall-e-3 with an invalid style and n = 2 is rejected with field n
C5_Witness ==
  /\ Finished /\ Resolved(params) = "dall-e-3"
  /\ params.style = Str("anime") /\ params.n = JsNum(2)
  /\ ValidField(params, "prompt") /\ ValidField(params, "size")
  /\ ValidField(params, "quality")
  /\ Rejected("n")

---------------------------------------------------------------------------
(* C6 - C10: the retention sweep                                           *)

SweepDone == sweep.pc = "done" /\ sweep.op = "cleanup"
RealRun   == SweepDone /\ ~sweep.dryRun
NoErrors  == sweep.results.errors = <<>>

\* the ImageFileRecords of the scan, and the entries the sweep removed
Scanned   == {sweep.imageFiles[k] : k \in 1 .. Len(sweep.imageFiles)}
Removed   == {e \in Entries : sweep.dir0[e].present /\ ~dir[e].present}
Kept      == {f \in Scanned : dir[f.name].present}

RECURSIVE SizeOfAll(_)
SizeOfAll(es) ==
  IF es = {} THEN 0
  ELSE LET e == CHOOSE x \in es : TRUE IN FileSize(e) + SizeOfAll(es \ {e})

\* every record is true to the file it describes
RecordsTrue ==
  \A f \in Scanned :
    /\ sweep.dir0[f.name].present /\ IsImageName(f.name)
    /\ f.modified = sweep.dir0[f.name].mtime
    /\ f.size = FileSize(f.name)
    /\ f.age >= sweep.now0 - f.modified /\ f.age <= now - f.modified

\* C6: a real cleanup with a positive retention, no maxFiles and no deletion
\* error removes exactly the image files whose age exceeds the retention and
\* no other entry; filesScanned counts the image files found, filesDeleted
\* the removed ones, spaceFreed the sum of their sizes.
C6_AgeRule ==
  (RealRun /\ NoErrors /\ Truthy(sweep.opts.retentionMs)
     /\ Omitted(sweep.opts.maxFiles)) =>
    /\ RecordsTrue
    /\ Removed = {f.name : f \in {g \in Scanned : g.age > sweep.opts.retentionMs.n}}
    /\ \A e \in Entries : e \notin Removed => dir[e] = sweep.dir0[e]
    /\ sweep.results.filesScanned =
         Cardinality({e \in Entries : /\ sweep.dir0[e].present
                                      /\ sweep.dir0[e].readable
                                      /\ ExtOf(e) # "txt"})
    /\ sweep.results.filesDeleted = Cardinality(Removed)
    /\ sweep.results.spaceFreed = SizeOfAll(Removed)

\* of two scanned image files the older one is removed, the younger one kept
C6_Witness ==
  /\ RealRun /\ NoErrors /\ sweep.opts.retentionMs = Num(2)
  /\ Omitted(sweep.opts.maxFiles)
  /\ sweep.results.filesScanned = 2 /\ sweep.results.filesDeleted = 1
  /\ \E f \in Scanned, g \in Scanned :
       /\ f.age > 2 /\ ~dir[f.name].present
       /\ g.age <= 2 /\ dir[g.name].present
       /\ sweep.results.spaceFreed = f.size

\* C7: with maxFiles = m, a real cleanup without deletion errors leaves at
\* most m image files; with k > m image files, none older than the
\* retention, it removes exactly the k - m files with the oldest
\* modification times and keeps the m newest.
C7_CountCap ==
  (RealRun /\ NoErrors /\ sweep.opts.maxFiles.t = "number") =>
    LET m == sweep.opts.maxFiles.n
        k == Len(sweep.imageFiles)
    IN  /\ Cardinality(Kept) <= m
        /\ (k > m /\ \A f \in Scanned : f.age <= sweep.retentionMs) =>
             /\ Cardinality(Scanned \ Kept) = k - m
             /\ Cardinality(Kept) = m
             /\ \A d \in Scanned \ Kept, r \in Kept : d.modified <= r.modified

\* the previous call was a dry run of the same directory state, clock and
\* policy as the real run that has now finished
ComparableDryRun == RealRun /\ prev.valid

NoDuplicates(sq) == \A a, b \in 1 .. Len(sq) : sq[a] = sq[b] => a = b

\* what C9 says about counting and isolation of failed deletions
FailureIsolation ==
  /\ ~sweep.dryRun => sweep.unlinks = Names(sweep.filesToDelete)
  /\ NoDuplicates(Names(sweep.filesToDelete))
  /\ NoDuplicates(sweep.results.errors)
  /\ sweep.results.filesDeleted + Len(sweep.results.errors)
       = Len(sweep.filesToDelete)
  /\ sweep.results.filesDeleted = Len(sweep.results.deletedFiles)
  /\ sweep.results.spaceFreed
       = SizeOfAll({sweep.results.deletedFiles[k] :
                      k \in 1 .. Len(sweep.results.deletedFiles)})
  /\ \A k \in 1 .. Len(sweep.results.errors) :
       LET e == sweep.results.errors[k]
       IN  dir[e] = sweep.dir0[e] /\ dir[e].present
  /\ ~sweep.dryRun =>
       \A k \in 1 .. Len(sweep.results.deletedFiles) :
         ~dir[sweep.results.deletedFiles[k]].present
  /\ sweep.results.success = (sweep.results.errors = <<>>)

\* C9 as stated: every file of the deletion set is attempted once, oldest
\* first; successes are counted, each failure adds one error and leaves the
\* file; filesDeleted + errors.length is the size of the deletion set;
\* success is false exactly when errors is non-empty.
C9_AttemptsOldestFirst ==
  SweepDone =>
    /\ FailureIsolation
    /\ \A a, b \in 1 .. Len(sweep.unlinks) :
         a < b => sweep.dir0[sweep.unlinks[a]].mtime
                    <= sweep.dir0[sweep.unlinks[b]].mtime

\* C9 amended: the attempts are in the order of the deletion set: first the
\* files past the retention, oldest first, then those added for the count
\* cap, oldest first.
C9_AttemptsInSetOrder ==
  SweepDone =>
    /\ FailureIsolation
    /\ \A a, b \in 1 .. Len(sweep.unlinks) :
         LET fa == sweep.filesToDelete[a]
             fb == sweep.filesToDelete[b]
             byAge(f) == f.age > sweep.retentionMs
         IN  a < b =>
               /\ fa.name = sweep.unlinks[a] /\ fb.name = sweep.unlinks[b]
               /\ byAge(fb) => byAge(fa)
               /\ byAge(fa) = byAge(fb) =>
                    sweep.dir0[fa.name].mtime <= sweep.dir0[fb.name].mtime

\* one failed deletion among several: the others are removed
C9_Witness ==
  /\ RealRun
  /\ Len(sweep.filesToDelete) >= 2
  /\ Len(sweep.results.errors) = 1
  /\ sweep.results.errors[1] = sweep.filesToDelete[1].name
  /\ sweep.results.filesDeleted = Len(sweep.filesToDelete) - 1
  /\ sweep.results.success = FALSE

\* C10: cleanup of a directory that does not exist returns the zero-effect
\* success result without throwing, reading or deleting.
C10_MissingDirectory ==
  (dirState = "missing" /\ sweep.op = "cleanup"
     /\ sweep.pc \notin {"idle", "access"}) =>
    /\ sweep.pc = "done"
    /\ dir = sweep.dir0
    /\ sweep.results.success = TRUE
    /\ sweep.results.filesScanned = 0
    /\ sweep.results.filesDeleted = 0
    /\ sweep.results.spaceFreed = 0
    /\ sweep.results.errors = <<>>
    /\ sweep.files = <<>> /\ sweep.imageFiles = <<>> /\ sweep.unlinks = <<>>

C10_Witness ==
  /\ dirState = "missing" /\ SweepDone
  /\ sweep.opts.maxFiles = Num(1) /\ ~sweep.dryRun

---------------------------------------------------------------------------
(* C11 - C14: failures of the scan, the schedule, overlapping cleanups     *)

ImageEntries == {e \in Entries : IsImageName(e)}
NameSet(sq)  == {sq[k] : k \in 1 .. Len(sq)}

RunStarted(r) == sched.runs[r].pc # "idle"
RunStepEnabled(r) ==
  ENABLED (RunAccess(r) \/ RunReaddir(r) \/ RunStat(r) \/ RunUnlink(r))

\* C12: scheduleCleanup starts one cleanup at once and one per elapsed
\* interval until stop() is called; once stop() has been called the handle
\* starts no cleanup any more; stop() leaves the cleanups in progress as
\* they are, and each of them can take its next step until it has ended.
C12_StartsAndStop ==
  /\ [](sched.timer # "none" =>
          /\ sched.started = 1 + sched.elapsed
          /\ \A r \in Runs : RunStarted(r) <=> r <= sched.started
          /\ \A r \in sched.inFlight :
               InProgress(sched.runs[r]) => RunStepEnabled(r))
  /\ [][/\ sched.stopCalled =>
             (sched'.started = sched.started /\ sched'.stopCalled)
        /\ (sched'.stopCalled /\ ~sched.stopCalled) =>
             sched'.runs = sched.runs]_vars

\* a cleanup that was deleting when stop() was called has finished, after
\* the initial run and one tick
C12_Witness ==
  /\ sched.timer = "cleared" /\ sched.started = 2
  /\ \E r \in sched.inFlight :
       /\ sched.runs[r].pc = "done"
       /\ sched.runs[r].results.filesDeleted >= 1

\* C13: a run of the schedule that fails is caught and logged by its
\* handler; it does not cancel the timer, which only stop() does, and the
\* next interval starts a cleanup all the same.
C13_FailureIsolated ==
  /\ [](/\ sched.timer = "cleared" => sched.stopCalled
        /\ sched.logged = Cardinality({r \in Runs : sched.runs[r].pc = "caught"})
        /\ \A r \in Runs : sched.runs[r].pc = "threw" => ENABLED RunFailed(r)
        /\ (sched.timer = "armed" /\ sched.started < MaxRuns) =>
             ENABLED IntervalElapsed)
  /\ [][sched'.elapsed = sched.elapsed + 1 =>
          /\ sched'.started = sched.started + 1
          /\ sched'.runs[sched'.started].pc = "access"]_vars

\* the initial run failed and was logged; the tick that followed has
\* started a cleanup and the timer is still armed
C13_Witness ==
  /\ dirState = "unreadable"
  /\ sched.timer = "armed"
  /\ sched.runs[1].pc = "caught" /\ sched.logged = 1
  /\ sched.runs[2].pc = "access"

Selected(r, f) ==
  \E k \in 1 .. Len(sched.runs[r].filesToDelete) :
    sched.runs[r].filesToDelete[k].name = f
Counted(r, f) == f \in NameSet(sched.runs[r].results.deletedFiles)
ErrorsFor(r, f) ==
  Cardinality({k \in 1 .. Len(sched.runs[r].results.errors) :
                 sched.runs[r].results.errors[k] = f})

\* C14: of the overlapping cleanups that selected one file, one removes and
\* counts it; each other one finds it gone, records one error for it,
\* reports success false and attempts all its other files; none throws.
\* (A file that cannot be deleted at all is no race: it is counted by none.)
C14_OverlappingCleanups ==
  \A f \in ImageEntries :
    /\ Cardinality({r \in Runs : Counted(r, f)}) <= 1
    /\ \A r \in Runs :
         /\ Selected(r, f) => sched.runs[r].pc \in {"unlink", "done"}
         /\ (sched.runs[r].pc = "done" /\ Selected(r, f)) =>
              /\ sched.runs[r].unlinks = Names(sched.runs[r].filesToDelete)
              /\ \/ Counted(r, f) /\ ErrorsFor(r, f) = 0
                 \/ /\ ~Counted(r, f) /\ ErrorsFor(r, f) = 1
                    /\ sched.runs[r].results.success = FALSE
              /\ sched.runs[r].results.filesDeleted
                   + Len(sched.runs[r].results.errors)
                   = Len(sched.runs[r].filesToDelete)
              /\ sched.runs[r].dir0[f].deletable =>
                   /\ ~dir[f].present
                   /\ \E r2 \in Runs : Counted(r2, f)

\* two finished cleanups selected the same two files; each removed one of
\* them and found the other one gone
C14_Witness ==
  \E f \in ImageEntries, g \in ImageEntries :
    /\ f # g
    /\ sched.runs[1].pc = "done" /\ sched.runs[2].pc = "done"
    /\ Selected(1, f) /\ Selected(2, f) /\ Selected(1, g) /\ Selected(2, g)
    /\ Counted(1, f) /\ ErrorsFor(2, f) = 1
    /\ Counted(2, g) /\ ErrorsFor(1, g) = 1
    /\ ~sched.runs[1].results.success /\ ~sched.runs[2].results.success

---------------------------------------------------------------------------
(* C15 - C18: style, n, purity, save                                       *)

\* the other fields pass their validators
AcceptedExcept(p, f) == \A g \in Fields \ {f} : ~RejectedBy(p, g)
\* the model the request resolves to, when the model field passes
TheModel(p) == IF Truthy(p.model) THEN p.model.s ELSE "dall-e-3"

IntegerLiteral(cs) ==
  LET s1 == SkipBlanks(cs)
      s2 == IF s1 # <<>> /\ Head(s1) \in {"-", "+"} THEN Tail(s1) ELSE s1
  IN  s2 # <<>> /\ \A k \in 1 .. Len(s2) : s2[k] \in Digits

\* C16: an omitted n gives 1; a numeric string is converted to the integer
\* it denotes and range-checked against the model; a non-integer number and
\* a string that does not denote an integer are rejected with field n.
C16_NCoercion ==
  (Finished /\ AcceptedExcept(params, "n")) =>
    LET n   == params.n
        cap == CapN(TheModel(params))
    IN  /\ n.t = "undefined" =>
             (outcome.status = "returned" /\ outcome.value.n = JsNum(1))
        /\ (n.t = "string" /\ IntegerLiteral(n.cs)) =>
             IF parseInt(n.cs).k \in cap
               THEN outcome.status = "returned"
                    /\ outcome.value.n = JsNum(parseInt(n.cs).k)
               ELSE Rejected("n")
        /\ (n.t = "number" /\ (n.frac \/ n.nan)) => Rejected("n")
        /\ (n.t = "string" /\ ~IntegerLiteral(n.cs)) => Rejected("n")

C18_SaveTruthiness ==
  (Finished /\ outcome.status = "returned") =>
    outcome.value.save =
      CASE params.save = Undefined    -> "absent"
        [] params.save = Bool(TRUE)   -> "true"
        [] params.save = Str("false") -> "true"
        [] params.save = Num(1)       -> "true"
        [] params.save = Bool(FALSE)  -> "false"
        [] params.save = Null         -> "false"
        [] params.save = Num(0)       -> "false"
        [] params.save = Str("")      -> "false"

C18_Witness ==
  /\ Finished /\ outcome.status = "returned"
  /\ params.save = Str("false") /\ outcome.value.save = "true"

---------------------------------------------------------------------------
(* C19 - C20: the request handlers and the download                        *)

\* C19: in both transports the client, and so the OpenAI API, is called
\* only after the validator accepted the arguments, with the validated
\* parameters; a request the validator does not accept is answered with an
\* error that carries the field (HTTP 400, JSON-RPC -32602) and the API is
\* not called.
C19_ValidateFirst ==
  /\ request.pc \in {"generating", "api"} =>
       /\ request.validation.status = "returned"
       /\ [request.passed EXCEPT !.save = "absent"]
            = [request.validation.value EXCEPT !.save = "absent"]
  /\ request.apiCalls >= 1 =>
       /\ request.validation.status = "returned"
       /\ request.apiParams.model = request.validation.value.model
       /\ request.apiParams.prompt = request.validation.value.prompt
       /\ request.apiParams.n = request.validation.value.n
       /\ request.apiParams.size = request.validation.value.size
       /\ request.apiParams.quality = request.validation.value.quality
       /\ request.apiParams.style = request.validation.value.style
  /\ (request.pc = "responded" /\ request.validation.status = "threw") =>
       /\ request.apiCalls = 0
       /\ request.response.code =
            (IF request.transport = "http" THEN 400 ELSE 0 - 32602)
       /\ request.response.field \in Fields

\* C20: whenever saveImage rejects, the file at the target path has been
\* deleted: a failed download leaves no file behind.
C20_NoFileLeftBehind ==
  download.promise = "rejected" => download.onDisk = "absent"

---------------------------------------------------------------------------
(* Claims C21-C30                                                          *)

\* the token a request presents: what follows "Bearer " in its header
Presented(h) == SubSeq(h, 3, Len(h))

\* C21: with a token configured the middleware calls next only for a request
\* whose bearer token equals the configured token, answers 401 when the
\* header is missing or does not start with "Bearer ", answers 403 for any
\* other token and then never calls next; with no token configured it calls
\* next; exactly one of next, 401 and 403 happens per request.
C21_BearerOnly ==
  auth.pc = "done" =>
    /\ auth.nextCalls + Len(auth.answered) = 1
    /\ \A i \in 1..Len(auth.answered) : auth.answered[i] \in {401, 403}
    /\ IF Falsy(auth.env) THEN auth.nextCalls = 1
       ELSE IF auth.header.kind = "undefined" \/ ~StartsWithBearer(auth.header.s)
         THEN auth.answered = <<401>>
       ELSE IF Presented(auth.header.s) # auth.env.s
         THEN auth.answered = <<403>>
       ELSE TRUE

\* C22: for every configuration, the directory the sweeper cleans and
\* reports on and the server serves under /images is the directory into
\* which the image client saves its files.
C22_SameDirectory ==
  server.pc = "started" =>
    /\ server.imagesDir = server.clientDir
    /\ server.servedDir = server.clientDir
    /\ server.schedules > 0 => server.scheduleDir = server.clientDir

\* C23: with IMAGE_CLEANUP_ENABLED=true the server starts exactly one
\* cleanup schedule on the images directory at startup; when cleanup is not
\* enabled it starts none.
C23_ScheduleWhenEnabled ==
  server.pc = "started" =>
    IF server.env.IMAGE_CLEANUP_ENABLED = Str("true")
      THEN /\ server.schedules = 1
           /\ server.scheduleDir = server.imagesDir
           /\ sched.timer = "armed" /\ sched.started = 1
      ELSE server.schedules = 0 /\ sched.timer = "none"

\* C24: save defaults to true: a generation request that omits save has its
\* image saved, on the HTTP path and on the JSON-RPC path alike; only an
\* explicit save = false skips saving.
C24_SaveDefaultsTrue ==
  (request.pc = "responded" /\ request.response.success
     /\ request.args.kind = "object") =>
    /\ request.args.save = Undefined => request.saved
    /\ request.args.save = Bool(FALSE) => ~request.saved

\* the responses written for message i
ResponsesTo(i) == {k \in 1..Len(stdio.out) : stdio.out[k].for = i}

\* C25: every JSON-RPC message the stdio server has handled that carries an
\* id has received exactly one response, with the same id, also when the id
\* is 0 and when the response is an error; a message without an id has
\* received none.
C25_OneResponsePerId ==
  \A i \in 1..Len(stdio.msgs) :
    (stdio.msgs[i].kind = "object" /\ i \notin stdio.pending) =>
      IF stdio.msgs[i].id # Undefined
        THEN /\ Cardinality(ResponsesTo(i)) = 1
             /\ \A k \in ResponsesTo(i) : stdio.out[k].id = stdio.msgs[i].id
        ELSE ResponsesTo(i) = {}

\* the sum of the values i..j of a stream
RECURSIVE StreamSum(_, _, _)
StreamSum(st, i, j) ==
  IF i > j THEN 0
  ELSE IF i = j THEN StreamValue(st, i)
  ELSE LET mid == (i + j) \div 2
       IN  StreamSum(st, i, mid) + StreamSum(st, mid + 1, j)

\* C26: after any sequence of recordHistogram calls for one key, count is
\* the number of values recorded, sum, min and max are taken over all of
\* them, and the stored samples are the most recently recorded values, never
\* more than 1000 of them; reset() empties counters, gauges and histograms.
C26_Histogram ==
  /\ \A h \in metrics.histograms :
       LET n == metrics.calls
           st == metrics.stream
           len == Len(h.entry.values)
       IN  /\ h.entry.count = n
           /\ h.entry.sum = StreamSum(st, 1, n)
           /\ \E i \in 1..n : h.entry.min = Finite(StreamValue(st, i))
           /\ \A i \in 1..n : h.entry.min.n <= StreamValue(st, i)
           /\ \E i \in 1..n : h.entry.max = Finite(StreamValue(st, i))
           /\ \A i \in 1..n : h.entry.max.n >= StreamValue(st, i)
           /\ len = (IF n < 1000 THEN n ELSE 1000)
           /\ \A k \in 1..len : h.entry.values[k] = StreamValue(st, n - len + k)
  /\ metrics.calls > 0 => metrics.histograms # {}
  /\ metrics.last = "reset" =>
       metrics.counters = {} /\ metrics.gauges = {} /\ metrics.histograms = {}

\* 1500 recordings have left 1000 stored samples, without the first value,
\* which is still the maximum
C26_Witness ==
  \E h \in metrics.histograms :
    /\ metrics.calls = 1500 /\ h.entry.count = 1500
    /\ Len(h.entry.values) = 1000
    /\ metrics.stream = "highFirst" /\ h.entry.max = Finite(9)
    /\ metrics.resets = 1

\* the scanned files whose age does not exceed the retention
Young == {f \in Scanned : f.age <= sweep.retentionMs}

\* C27: when the age rule and the count cap both apply, the cap removes
\* only as many further files as are needed to reach maxFiles: after a real
\* cleanup without deletion errors the image files that remain number
\* min(maxFiles, files whose age does not exceed the retention).
C27_CapCountsAgeSelected ==
  (RealRun /\ NoErrors /\ sweep.opts.maxFiles.t = "number") =>
    Cardinality(Kept) = Min(sweep.opts.maxFiles.n, Cardinality(Young))

\* C28: cleanup applies the policy values the caller supplies, zero
\* included: with retention 0 every image file of positive age is selected
\* for deletion, and with maxFiles 0 no image file is kept.
C28_ZeroIsAValue ==
  /\ (SweepDone /\ sweep.opts.retentionMs = Num(0)) =>
       \A f \in Scanned : f.age > 0 => InSeq(sweep.filesToDelete, f)
  /\ (RealRun /\ NoErrors /\ sweep.opts.maxFiles = Num(0)) => Kept = {}

\* C29: the cleanups one schedule handle starts never overlap: the initial
\* run and every interval tick start a cleanup only when no earlier one of
\* the handle is still in progress.
C29_NoOverlap ==
  Cardinality({r \in Runs : InProgress(sched.runs[r])}) <= 1

\* C30: in every interleaving of the timer, request, response and
\* file-stream events a saveImage call settles and does not hang: no event
\* is left without a handler, the promise resolves only after the file was
\* completely written and closed, a rejected promise never resolves, and
\* once neither the timer nor the close callback is outstanding the promise
\* is settled.
C30_SettlesOnce ==
  /\ ~download.crashed
  /\ download.promise = "resolved" =>
       /\ download.file = "closed" /\ download.onDisk = "complete"
       /\ download.cause = ""
  /\ (download.called /\ download.timer # "armed" /\ ~download.closing) =>
       download.promise # "pending"

=============================================================================
